---- MODULE Spec2Model ----
\* Conversation window, capability resolver and stream decoder of the
\* chatgpt-cli client (api/client, api/http, history).
EXTENDS Integers, Sequences, FiniteSets, TLC

\* ---------------------------------------------------------------------
\* Bounds of the model
\* ---------------------------------------------------------------------
\* longest window an operation is still started on
MaxTurns == 2
\* longest model identifier, counted in fragments
MaxFragments == 3
\* longest event stream, counted in lines
MaxLines == 4

\* ---------------------------------------------------------------------
\* Program constants
\* ---------------------------------------------------------------------
AssistantRole == "assistant"
SystemRole == "system"
UserRole == "user"
FunctionRole == "function"
MaxTokenBufferPercentage == 20
ErrEmptyResponse == "empty response"
ErrUnsupportedProvider == "unsupported MCP provider"
ErrHistoryTracking == "history tracking needs to be enabled to use this feature"
ErrMissingMCPAPIKey == "the apify api key is not configured"
SearchModelPattern == <<"-", "s", "e", "a", "r", "c", "h">>
o1Prefix == <<"o", "1">>
o1ProPattern == <<"o", "1", "-", "p", "r", "o">>
gpt5Pattern == <<"g", "p", "t", "-", "5">>
messageType == "message"
outputTextType == "output_text"
ApifyProvider == "apify"

\* ---------------------------------------------------------------------
\* Text: a Go string is a sequence of one-character strings
\* ---------------------------------------------------------------------
IsSpace(ch) == ch \in {" ", "\n", "\t"}

RECURSIVE FieldsOf(_, _, _)
\* the fields of s[lo..hi], by halves: a run that crosses the middle is one
\* field
FieldsOf(s, lo, hi) ==
    IF lo > hi THEN <<>>
    ELSE IF lo = hi THEN (IF IsSpace(s[lo]) THEN <<>> ELSE <<<<s[lo]>>>>)
    ELSE LET mid == (lo + hi) \div 2
             l == FieldsOf(s, lo, mid)
             r == FieldsOf(s, mid + 1, hi)
         IN IF ~IsSpace(s[mid]) /\ ~IsSpace(s[mid + 1])
            THEN SubSeq(l, 1, Len(l) - 1) \o <<l[Len(l)] \o r[1]>> \o Tail(r)
            ELSE l \o r

\* strings.Fields: the maximal runs of non-space characters, in order
Fields(s) == FieldsOf(s, 1, Len(s))

RECURSIVE Join(_, _)
\* strings.Join
Join(words, sep) ==
    IF words = <<>> THEN <<>>
    ELSE IF Len(words) = 1 THEN words[1]
    ELSE LET mid == Len(words) \div 2
         IN Join(SubSeq(words, 1, mid), sep) \o sep
                \o Join(SubSeq(words, mid + 1, Len(words)), sep)

\* strings.HasPrefix
HasPrefix(s, p) == Len(p) <= Len(s) /\ SubSeq(s, 1, Len(p)) = p

RECURSIVE ContainsFrom(_, _, _)
ContainsFrom(s, p, i) ==
    IF i + Len(p) - 1 > Len(s) THEN FALSE
    ELSE IF SubSeq(s, i, i + Len(p) - 1) = p THEN TRUE
    ELSE ContainsFrom(s, p, i + 1)

\* strings.Contains
Contains(s, p) == ContainsFrom(s, p, 1)

\* a plain-text message content
Text(t) == [kind |-> "text", text |-> t]

Message(role, name, content) == [Role |-> role, Name |-> name, Content |-> content]

\* ---------------------------------------------------------------------
\* Token accounting
\* ---------------------------------------------------------------------
calculateEffectiveContextWindow(window, bufferPercentage) ==
    LET adjustedPercentage == 100 - bufferPercentage
    IN (window * adjustedPercentage) \div 100

RECURSIVE SumLen(_)
SumLen(words) == IF words = <<>> THEN 0 ELSE Len(words[1]) + SumLen(Tail(words))

\* the cost of one entry: (charCount + wordCount) / 2
tokenCountForMessage(entry) ==
    LET words == Fields(entry.Content.text)
    IN (SumLen(words) + Len(words)) \div 2

RECURSIVE SumSeq(_)
SumSeq(q) == IF q = <<>> THEN 0 ELSE q[1] + SumSeq(Tail(q))

PanicError == "panic: interface conversion: interface {} is not string"
\* entry.Content.(string): the assertion panics on a content that is not a
\* string, so countTokens has a result for windows of text turns only
countTokensPanics(entries) == \E i \in DOMAIN entries : entries[i].Content.kind # "text"

countTokens(entries) ==
    LET rolling == [i \in 1..Len(entries) |-> tokenCountForMessage(entries[i])]
    IN [tokens |-> SumSeq(rolling), rolling |-> rolling]


\* ---------------------------------------------------------------------
\* State
\* ---------------------------------------------------------------------
VARIABLES
    Config,     \* the client's configuration (Client.Config)
    History,    \* the conversation window (Client.History)
    stored,     \* what the HistoryStore holds for the thread
    calls,      \* the steps and collaborator calls of the last operation
    ret,        \* what the last operation returned
    model,      \* capability resolver: the identifier last resolved
    caps,       \* capability resolver: the flags returned for it
    endpoint,   \* stream decoder: which grammar the call site selected
    lines,      \* stream decoder: the lines of the event stream
    pos,        \* stream decoder: lines consumed so far
    curEvent,   \* stream decoder: name on the last event: line
    buf,        \* stream decoder: the accumulating text buffer
    out,        \* stream decoder: the writes made to the writer, in order
    finished    \* stream decoder: the call has returned

clientVars == <<Config, History, stored, calls, ret>>
capsVars == <<model, caps>>
streamVars == <<endpoint, lines, pos, curEvent, buf, out, finished>>
vars == <<Config, History, stored, calls, ret, model, caps,
          endpoint, lines, pos, curEvent, buf, out, finished>>

\* ---------------------------------------------------------------------
\* Conversation window
\* ---------------------------------------------------------------------
\* a step of an operation, as it is recorded in calls
Ev(op, role, window) == [op |-> op, role |-> role, window |-> window]

Log(c, ev) == [c EXCEPT !.calls = Append(@, ev)]

RECURSIVE scanCut(_, _, _, _)
\* the loop of truncateHistory over rolling[1..], with Go's indices:
\* the first i whose running total exceeds diff, or 0 when there is none
scanCut(rolling, i, total, diff) ==
    IF i >= Len(rolling) THEN 0
    ELSE LET t == total + rolling[i + 1]
         IN IF t > diff THEN i ELSE scanCut(rolling, i + 1, t, diff)

truncateWindowKeepsCut(h, window) ==
    LET ct == countTokens(h)
        effectiveTokenSize == calculateEffectiveContextWindow(window, MaxTokenBufferPercentage)
    IN IF ct.tokens <= effectiveTokenSize THEN h
       ELSE LET index == scanCut(ct.rolling, 1, 0, ct.tokens - effectiveTokenSize)
            IN SubSeq(h, 1, 1) \o SubSeq(h, index + 1, Len(h))

truncateWindowStrictGuard(h, window) ==
    LET ct == countTokens(h)
        effectiveTokenSize == calculateEffectiveContextWindow(window, MaxTokenBufferPercentage)
    IN IF ct.tokens < effectiveTokenSize THEN h
       ELSE LET index == scanCut(ct.rolling, 1, 0, ct.tokens - effectiveTokenSize)
            IN SubSeq(h, 1, 1) \o SubSeq(h, index + 2, Len(h))

truncateWindowDropsSecond(h, window) ==
    LET ct == countTokens(h)
        effectiveTokenSize == calculateEffectiveContextWindow(window, MaxTokenBufferPercentage)
    IN IF ct.tokens <= effectiveTokenSize THEN h
       ELSE LET index == scanCut(ct.rolling, 1, 0, ct.tokens - effectiveTokenSize)
            IN SubSeq(h, 1, 1) \o SubSeq(h, (IF index = 0 THEN 1 ELSE index) + 2, Len(h))

truncateWindowIgnoresBuffer(h, window) ==
    LET ct == countTokens(h)
        effectiveTokenSize == calculateEffectiveContextWindow(window, MaxTokenBufferPercentage)
    IN IF ct.tokens <= effectiveTokenSize THEN h
       ELSE LET index == scanCut(ct.rolling, 1, 0, ct.tokens - window)
            IN SubSeq(h, 1, 1) \o SubSeq(h, index + 2, Len(h))

\* the window truncateHistory leaves: History[:1] followed by History[index+1:]
truncateWindow(h, window) ==
    LET ct == countTokens(h)
        effectiveTokenSize == calculateEffectiveContextWindow(window, MaxTokenBufferPercentage)
    IN IF ct.tokens <= effectiveTokenSize THEN h
       ELSE LET index == scanCut(ct.rolling, 1, 0, ct.tokens - effectiveTokenSize)
            IN SubSeq(h, 1, 1) \o SubSeq(h, index + 2, Len(h))

truncateHistory(c, cfg) ==
    LET after == truncateWindow(c.History, cfg.ContextWindow)
    IN [Log(c, [op |-> "truncateHistory", role |-> "", window |-> c.History,
                after |-> after])
           EXCEPT !.History = after]

\* HistoryStore.Read: what the store holds, or nothing when the read fails
storeRead(c, readOk) ==
    LET read == IF readOk THEN c.stored ELSE <<>>
    IN [Log(c, Ev("Read", "", read)) EXCEPT !.History = read]

initHistoryAppendsAnchor(c, cfg, readOk) ==
    IF Len(c.History) # 0 THEN c
    ELSE LET c1 == IF ~cfg.OmitHistory THEN storeRead(c, readOk) ELSE c
             c3 == [c1 EXCEPT !.History =
                        <<Message(SystemRole, <<>>, Text(cfg.Role))>> \o c1.History]
         IN Log(c3, Ev("initHistory", "", c3.History))

initHistoryAlwaysReads(c, cfg, readOk) ==
    LET c1 == IF ~cfg.OmitHistory THEN storeRead(c, readOk) ELSE c
        c2 == IF Len(c1.History) = 0
              THEN [c1 EXCEPT !.History = <<Message(SystemRole, <<>>, Text(<<>>))>>]
              ELSE c1
        c3 == [c2 EXCEPT !.History[1].Content = Text(cfg.Role)]
    IN Log(c3, Ev("initHistory", "", c3.History))

\* initHistory records the window it leaves when it had to build one
initHistory(c, cfg, readOk) ==
    IF Len(c.History) # 0 THEN c
    ELSE LET c1 == IF ~cfg.OmitHistory THEN storeRead(c, readOk) ELSE c
             c2 == IF Len(c1.History) = 0
                   THEN [c1 EXCEPT !.History = <<Message(SystemRole, <<>>, Text(<<>>))>>]
                   ELSE c1
             c3 == [c2 EXCEPT !.History[1].Content = Text(cfg.Role)]
         IN Log(c3, Ev("initHistory", "", c3.History))

appendEntry(c, msg) ==
    [Log(c, Ev("append", msg.Role, <<msg>>)) EXCEPT !.History = Append(c.History, msg)]

addQueryNoTruncate(c, cfg, query) ==
    appendEntry(c, Message(UserRole, <<>>, Text(query)))

addQueryTruncatesBeforeAppend(c, cfg, query) ==
    appendEntry(truncateHistory(c, cfg), Message(UserRole, <<>>, Text(query)))

addQuery(c, cfg, query) ==
    truncateHistory(appendEntry(c, Message(UserRole, <<>>, Text(query))), cfg)

prepareQueryTruncatesFirst(c, cfg, input, readOk) ==
    appendEntry(truncateHistory(initHistory(c, cfg, readOk), cfg),
                Message(UserRole, <<>>, Text(input)))

prepareQuery(c, cfg, input, readOk) ==
    addQuery(initHistory(c, cfg, readOk), cfg, input)

storeWriteRollsBack(c, writeOk) ==
    IF writeOk
    THEN [Log(c, Ev("Write", "", c.History)) EXCEPT !.stored = c.History]
    ELSE [Log(c, Ev("WriteFailed", "", c.History))
            EXCEPT !.History = SubSeq(c.History, 1, Len(c.History) - 1)]

\* HistoryStore.Write: the store keeps the argument unless the write fails
storeWrite(c, writeOk) ==
    [Log(c, Ev(IF writeOk THEN "Write" ELSE "WriteFailed", "", c.History))
        EXCEPT !.stored = IF writeOk THEN c.History ELSE c.stored]

updateHistoryTrimmed(c, cfg, response, writeOk) ==
    LET trimmed == IF response # <<>> /\ response[Len(response)] = "\n"
                   THEN SubSeq(response, 1, Len(response) - 1) ELSE response
        c1 == appendEntry(c, Message(AssistantRole, <<>>, Text(trimmed)))
    IN IF ~cfg.OmitHistory THEN storeWrite(c1, writeOk) ELSE c1

updateHistoryAlwaysWrites(c, cfg, response, writeOk) ==
    storeWrite(appendEntry(c, Message(AssistantRole, <<>>, Text(response))), writeOk)

updateHistoryWritesFirst(c, cfg, response, writeOk) ==
    LET c1 == IF ~cfg.OmitHistory THEN storeWrite(c, writeOk) ELSE c
    IN appendEntry(c1, Message(AssistantRole, <<>>, Text(response)))

updateHistory(c, cfg, response, writeOk) ==
    LET c1 == appendEntry(c, Message(AssistantRole, <<>>, Text(response)))
    IN IF ~cfg.OmitHistory THEN storeWrite(c1, writeOk) ELSE c1


\* ---------------------------------------------------------------------
\* Capability resolver
\* ---------------------------------------------------------------------
GetCapabilitiesPrefixAnywhere(m) ==
    [SupportsTemperature |-> ~Contains(m, SearchModelPattern),
     SupportsStreaming |-> ~Contains(m, o1ProPattern),
     UsesResponsesAPI |-> Contains(m, o1ProPattern) \/ Contains(m, gpt5Pattern),
     OmitFirstSystemMsg |-> Contains(m, o1Prefix) /\ ~Contains(m, o1ProPattern)]

GetCapabilities(m) ==
    [SupportsTemperature |-> ~Contains(m, SearchModelPattern),
     SupportsStreaming |-> ~Contains(m, o1ProPattern),
     UsesResponsesAPI |-> Contains(m, o1ProPattern) \/ Contains(m, gpt5Pattern),
     OmitFirstSystemMsg |-> HasPrefix(m, o1Prefix) /\ ~Contains(m, o1ProPattern)]

\* ---------------------------------------------------------------------
\* Request assembly
\* ---------------------------------------------------------------------
\* a media content (a list of image or audio items)
Media(k) == [kind |-> k, text |-> <<>>]

\* the attachment the context of one call carries: inline binary data, an
\* image path or URL, an audio path, or one of them that cannot be read
Attachments == {"none", "binary", "image", "audio", "unreadable"}

appendMediaMessagesInFront(att, messages) ==
    IF att = "none" THEN [err |-> "", messages |-> messages]
    ELSE IF att = "unreadable" THEN [err |-> "read error", messages |-> <<>>]
    ELSE [err |-> "",
          messages |-> <<Message(UserRole, <<>>,
                                 Media(IF att = "audio" THEN "input_audio" ELSE "image_url"))>>
                       \o messages]

appendMediaMessages(att, messages) ==
    IF att = "none" THEN [err |-> "", messages |-> messages]
    ELSE IF att = "unreadable" THEN [err |-> "read error", messages |-> <<>>]
    ELSE [err |-> "",
          messages |-> Append(messages,
              Message(UserRole, <<>>,
                      Media(IF att = "audio" THEN "input_audio" ELSE "image_url")))]

historyMessagesOmitAlways(h, omitFirst) ==
    IF Len(h) >= 1 THEN SubSeq(h, 2, Len(h)) ELSE h

\* the loop over c.History of both request builders
historyMessages(h, omitFirst) ==
    IF omitFirst /\ Len(h) >= 1 THEN SubSeq(h, 2, Len(h)) ELSE h

createCompletionsRequestAlwaysTemperature(h, cfg, att, stream) ==
    LET cp == GetCapabilities(cfg.Model)
        m == appendMediaMessages(att, historyMessages(h, cp.OmitFirstSystemMsg))
    IN [err |-> m.err,
        req |-> [shape |-> "completions", messages |-> m.messages, stream |-> stream,
                 Temperature |-> cfg.Temperature, TopP |-> cfg.TopP]]

createCompletionsRequest(h, cfg, att, stream) ==
    LET cp == GetCapabilities(cfg.Model)
        m == appendMediaMessages(att, historyMessages(h, cp.OmitFirstSystemMsg))
    IN [err |-> m.err,
        req |-> [shape |-> "completions", messages |-> m.messages, stream |-> stream,
                 Temperature |-> IF cp.SupportsTemperature THEN cfg.Temperature ELSE 0,
                 TopP |-> IF cp.SupportsTemperature THEN cfg.TopP ELSE 0]]

createResponsesRequest(h, cfg, att, stream) ==
    LET cp == GetCapabilities(cfg.Model)
        m == appendMediaMessages(att, historyMessages(h, cp.OmitFirstSystemMsg))
    IN [err |-> m.err,
        req |-> [shape |-> "responses", messages |-> m.messages, stream |-> stream,
                 Temperature |-> cfg.Temperature, TopP |-> cfg.TopP]]

\* json.Marshal of a request: the keys of the serialized body. The classic
\* request leaves out a temperature or top-p that holds no value, the
\* alternate request always carries both
Marshal(req) ==
    IF req.shape = "completions"
    THEN {"messages", "model", "stream"}
            \cup (IF req.Temperature # 0 THEN {"temperature"} ELSE {})
            \cup (IF req.TopP # 0 THEN {"top_p"} ELSE {})
    ELSE {"input", "model", "stream", "temperature", "top_p"}

createBody(h, cfg, att, stream) ==
    LET r == IF GetCapabilities(cfg.Model).UsesResponsesAPI
             THEN createResponsesRequest(h, cfg, att, stream)
             ELSE createCompletionsRequest(h, cfg, att, stream)
    IN [err |-> r.err, req |-> r.req, att |-> att,
        keys |-> IF r.err # "" THEN {} ELSE Marshal(r.req)]

\* createBody followed by caller.Post, as both appear in calls
logBody(c, body) ==
    Log(c, [op |-> "createBody", role |-> "", window |-> c.History, err |-> body.err,
            att |-> body.att])

logPost(c, body) ==
    Log(c, [op |-> "Post", role |-> "", window |-> body.req.messages, req |-> body.req,
            keys |-> body.keys])

logResponseRollsBack(c, raw, err) ==
    LET c1 == Log(c, [op |-> "Response", role |-> "", window |-> <<>>, raw |-> raw, err |-> err])
    IN IF err # "" THEN [c1 EXCEPT !.History = SubSeq(c.History, 1, Len(c.History) - 1)] ELSE c1

\* what caller.Post returned to the operation
logResponse(c, raw, err) ==
    Log(c, [op |-> "Response", role |-> "", window |-> <<>>, raw |-> raw, err |-> err])

\* ---------------------------------------------------------------------
\* Response decoding
\* ---------------------------------------------------------------------
NilRaw == [kind |-> "nil"]
InvalidRaw == [kind |-> "invalid"]
\* a JSON object with the fields either envelope reads
Envelope(choices, output, total) ==
    [kind |-> "json", choices |-> choices, output |-> output, total |-> total]

processResponseNoNilCheck(raw) ==
    IF raw.kind \in {"nil", "invalid"}
    THEN "failed to decode response: invalid character"
    ELSE ""

processResponse(raw) ==
    IF raw.kind = "nil" THEN ErrEmptyResponse
    ELSE IF raw.kind = "invalid" THEN "failed to decode response: invalid character"
    ELSE ""

RECURSIVE firstOutputText(_, _)
\* the inner loop of Query: the text of the first output_text entry, or cur
firstOutputText(content, cur) ==
    IF content = <<>> THEN cur
    ELSE IF content[1].type = outputTextType THEN content[1].text
    ELSE firstOutputText(Tail(content), cur)

RECURSIVE scanOutput(_, _)
\* the outer loop of Query over res.Output
scanOutput(output, cur) ==
    IF output = <<>> THEN cur
    ELSE IF output[1].type # messageType THEN scanOutput(Tail(output), cur)
    ELSE scanOutput(Tail(output), firstOutputText(output[1].content, cur))

decodeQueryLastChoice(cfg, raw) ==
    LET perr == processResponse(raw)
    IN IF perr # "" THEN [text |-> <<>>, tokens |-> 0, err |-> perr]
       ELSE IF GetCapabilities(cfg.Model).UsesResponsesAPI
       THEN LET response == scanOutput(raw.output, <<>>)
            IN IF response = <<>>
               THEN [text |-> <<>>, tokens |-> raw.total, err |-> "no response returned"]
               ELSE [text |-> response, tokens |-> raw.total, err |-> ""]
       ELSE IF Len(raw.choices) = 0
            THEN [text |-> <<>>, tokens |-> raw.total, err |-> "no responses returned"]
       ELSE IF raw.choices[Len(raw.choices)].kind # "text"
            THEN [text |-> <<>>, tokens |-> raw.total,
                  err |-> "response cannot be converted to a string"]
       ELSE [text |-> raw.choices[Len(raw.choices)].text, tokens |-> raw.total, err |-> ""]

decodeQueryDropsTokens(cfg, raw) ==
    LET perr == processResponse(raw)
    IN IF perr # "" THEN [text |-> <<>>, tokens |-> 0, err |-> perr]
       ELSE IF GetCapabilities(cfg.Model).UsesResponsesAPI
       THEN LET response == scanOutput(raw.output, <<>>)
            IN IF response = <<>>
               THEN [text |-> <<>>, tokens |-> 0, err |-> "no response returned"]
               ELSE [text |-> response, tokens |-> raw.total, err |-> ""]
       ELSE IF Len(raw.choices) = 0
            THEN [text |-> <<>>, tokens |-> raw.total, err |-> "no responses returned"]
       ELSE IF raw.choices[1].kind # "text"
            THEN [text |-> <<>>, tokens |-> raw.total,
                  err |-> "response cannot be converted to a string"]
       ELSE [text |-> raw.choices[1].text, tokens |-> raw.total, err |-> ""]

\* the decoding of Query, after a successful Post
decodeQuery(cfg, raw) ==
    LET perr == processResponse(raw)
    IN IF perr # "" THEN [text |-> <<>>, tokens |-> 0, err |-> perr]
       ELSE IF GetCapabilities(cfg.Model).UsesResponsesAPI
       THEN LET response == scanOutput(raw.output, <<>>)
            IN IF response = <<>>
               THEN [text |-> <<>>, tokens |-> raw.total, err |-> "no response returned"]
               ELSE [text |-> response, tokens |-> raw.total, err |-> ""]
       ELSE IF Len(raw.choices) = 0
            THEN [text |-> <<>>, tokens |-> raw.total, err |-> "no responses returned"]
       ELSE IF raw.choices[1].kind # "text"
            THEN [text |-> <<>>, tokens |-> raw.total,
                  err |-> "response cannot be converted to a string"]
       ELSE [text |-> raw.choices[1].text, tokens |-> raw.total, err |-> ""]


\* ---------------------------------------------------------------------
\* Context, transcription and MCP helpers
\* ---------------------------------------------------------------------
\* the block size of createHistoryEntriesFromString
BlockWords == 100

RECURSIVE wordBlocks(_, _)
\* the loop of createHistoryEntriesFromString from word i (Go's index)
wordBlocks(words, i) ==
    IF i >= Len(words) THEN <<>>
    ELSE LET end == IF i + BlockWords > Len(words) THEN Len(words) ELSE i + BlockWords
         IN <<Message(UserRole, <<>>, Text(Join(SubSeq(words, i + 1, end), <<" ">>)))>>
            \o wordBlocks(words, i + BlockWords)

createHistoryEntriesFromStringOneBlock(input) ==
    IF Fields(input) = <<>> THEN <<>>
    ELSE <<Message(UserRole, <<>>, Text(Join(Fields(input), <<" ">>)))>>

createHistoryEntriesFromString(input) == wordBlocks(Fields(input), 0)

\* strings.ReplaceAll(s, "~", "-")
ReplaceTilde(s) == [i \in 1..Len(s) |-> IF s[i] = "~" THEN "-" ELSE s[i]]

\* strings.ToLower on the provider names the model draws
ToLower(p) == IF p = "Apify" THEN "apify" ELSE p

buildMCPRequestKeyFirst(cfg, provider) ==
    IF ~cfg.ApifyAPIKey THEN ErrMissingMCPAPIKey
    ELSE IF ToLower(provider) # ApifyProvider THEN ErrUnsupportedProvider
    ELSE ""

buildMCPRequest(cfg, provider) ==
    IF ToLower(provider) # ApifyProvider THEN ErrUnsupportedProvider
    ELSE IF ~cfg.ApifyAPIKey THEN ErrMissingMCPAPIKey
    ELSE ""

\* formatMCPResponse for a reply that is not JSON, and for an empty JSON list
formatMCPResponse(rawKind, function) ==
    IF rawKind = "invalid"
    THEN <<"[", "M", "C", "P", ":", " ">> \o function \o <<"]", " ", "(", "f", "a", "i", "l", "e", "d", " ", "t", "o", " ", "d", "e", "c", "o", "d", "e", " ", "r", "e", "s", "p", "o", "n", "s", "e", ")">>
    ELSE <<"[", "M", "C", "P", ":", " ">> \o function \o <<"]", " ", "(", "n", "o", " ", "d", "a", "t", "a", " ", "r", "e", "t", "u", "r", "n", "e", "d", ")">>

transcribeMarker(base) == <<"[", "t", "r", "a", "n", "s", "c", "r", "i", "b", "e", "]", " ">> \o base

\* ---------------------------------------------------------------------
\* Inputs
\* ---------------------------------------------------------------------
\* the persona text (Config.Role): cost 4
Persona == <<"p", "p", "p", " ", "p", "p", "p">>
\* the persona of an earlier session, found in a persisted history: cost 1
OldRole == <<"o">>
\* user queries: costs 1 and 3
Query3 == <<"q", "q", " ", "q", "q">>
Queries == {<<"q">>, Query3}
\* a query of cost 5: with the persona it exceeds the budget 8
BigQuery == <<"b", "b", "b", "b", " ", "b", "b", "b", "b">>
\* an assistant reply: cost 2
Reply == <<"a", " ", "a">>
\* effective budgets 4 (the persona alone fills it) and 8
ContextWindows == {5, 10}
ClassicModel == <<"g", "p", "t", "-", "3", ".", "5", "-", "t", "u", "r", "b", "o">>
Gpt5Model == <<"g", "p", "t", "-", "5">>
O1MiniModel == <<"o", "1", "-", "m", "i", "n", "i">>
SearchModel == <<"g", "p", "t", "-", "4", "o", "-", "s", "e", "a", "r", "c", "h">>
Gpt5SearchModel == <<"g", "p", "t", "-", "5", "-", "s", "e", "a", "r", "c", "h">>
O1Gpt5Model == <<"o", "1", "-", "g", "p", "t", "-", "5">>
Models == {ClassicModel, Gpt5Model, O1MiniModel, SearchModel, Gpt5SearchModel, O1Gpt5Model}

\* configured temperature and top-p in tenths (0.7 and 0.9), or zero
Temperatures == {0, 7}
TopPs == {0, 9}

AllConfigs ==
    [OmitHistory : BOOLEAN, ContextWindow : ContextWindows, Role : {Persona},
     Model : Models, ApifyAPIKey : BOOLEAN, Temperature : Temperatures, TopP : TopPs]

\* the configurations of Spec: the classic model; persistence and context
\* window vary together, the MCP key is missing in one of them
Configs ==
    {cfg \in AllConfigs :
        /\ cfg.Model = ClassicModel
        /\ cfg.Temperature = 7 /\ cfg.TopP = 9
        /\ cfg.ApifyAPIKey \/ (~cfg.OmitHistory /\ cfg.ContextWindow = 5)}

\* what an earlier session of the program left in the store
PersistedHistories ==
    {<<>>,
     <<Message(SystemRole, <<>>, Text(OldRole)),
       Message(UserRole, <<>>, Text(<<"q">>)),
       Message(AssistantRole, <<>>, Text(Reply))>>,
     <<Message(SystemRole, <<>>, Text(OldRole)),
       Message(UserRole, <<>>, Text(Query3)),
       Message(AssistantRole, <<>>, Text(Reply)),
       Message(UserRole, <<>>, Text(Query3)),
       Message(AssistantRole, <<>>, Text(Reply))>>}

\* payloads the transport returns to Query
Raws ==
    {InvalidRaw,
     Envelope(<<Text(Reply)>>,
              <<[type |-> messageType,
                 content |-> <<[type |-> outputTextType, text |-> Reply]>>]>>, 7)}

\* flattened stream texts the transport returns to Stream
StreamResults == {Reply \o <<"\n">>}

PostResults ==
    {[err |-> "transport error", raw |-> NilRaw]} \cup {[err |-> "", raw |-> r] : r \in Raws}


\* ---------------------------------------------------------------------
\* The client's operations
\* ---------------------------------------------------------------------
Client0 == [History |-> History, stored |-> stored, calls |-> <<>>]

Result(op, text, tokens, err) == [op |-> op, text |-> text, tokens |-> tokens, err |-> err]

\* the state an operation leaves, and what it returns
Return(c, r) ==
    /\ History' = c.History
    /\ stored' = c.stored
    /\ calls' = c.calls
    /\ ret' = r
    /\ UNCHANGED <<Config, model, caps, endpoint, lines, pos, curEvent, buf, out, finished>>

\* no identifier has been resolved
Unresolved == [resolved |-> FALSE]

capsIdle == model = <<>> /\ caps = Unresolved

streamIdle ==
    /\ endpoint = "" /\ lines = <<>> /\ pos = 0 /\ curEvent = ""
    /\ buf = "" /\ out = <<>> /\ finished = TRUE

clientIdle ==
    /\ Config = CHOOSE cfg \in Configs : TRUE
    /\ History = <<>> /\ stored = <<>> /\ calls = <<>>
    /\ ret = Result("New", <<>>, 0, "")

\* the client after New
Init ==
    /\ Config \in Configs
    /\ History = <<>>
    /\ stored \in PersistedHistories
    /\ calls = <<>>
    /\ ret = Result("New", <<>>, 0, "")
    /\ capsIdle
    /\ streamIdle

Query(input, att, readOk, post, writeOk) ==
    /\ Len(History) <= MaxTurns
    /\ LET c1 == prepareQuery(Client0, Config, input, readOk)
           body == createBody(c1.History, Config, att, FALSE)
           c2 == logBody(c1, body)
       IN IF body.err # "" THEN Return(c2, Result("Query", <<>>, 0, body.err))
          ELSE LET c3 == logResponse(logPost(c2, body), post.raw, post.err)
                   d == decodeQuery(Config, post.raw)
               IN IF post.err # "" THEN Return(c3, Result("Query", <<>>, 0, post.err))
                  ELSE IF d.err # "" THEN Return(c3, Result("Query", <<>>, d.tokens, d.err))
                  ELSE Return(updateHistory(c3, Config, d.text, writeOk),
                              Result("Query", d.text, d.tokens, ""))

Stream(input, att, readOk, postErr, result, writeOk) ==
    /\ Len(History) <= MaxTurns
    /\ LET c1 == prepareQuery(Client0, Config, input, readOk)
           body == createBody(c1.History, Config, att, TRUE)
           c2 == logBody(c1, body)
       IN IF body.err # "" THEN Return(c2, Result("Stream", <<>>, 0, body.err))
          ELSE LET c3 == logResponse(logPost(c2, body), result,
                                      IF postErr THEN "transport error" ELSE "")
               IN IF postErr THEN Return(c3, Result("Stream", <<>>, 0, "transport error"))
                  ELSE Return(updateHistory(c3, Config, result, writeOk),
                              Result("Stream", <<>>, 0, ""))

ProvideContext(context, readOk) ==
    /\ Len(History) <= MaxTurns
    /\ LET c0 == initHistory(Client0, Config, readOk)
           c1 == Log(c0, [op |-> "createHistoryEntriesFromString", role |-> "",
                          window |-> <<>>, input |-> context])
           historyEntries == createHistoryEntriesFromString(context)
           c2 == [c1 EXCEPT !.History = c1.History \o historyEntries,
                            !.calls = c1.calls \o
                                [i \in 1..Len(historyEntries) |->
                                    Ev("append", UserRole, <<historyEntries[i]>>)]]
       IN Return(c2, Result("ProvideContext", <<>>, 0, ""))

\* outcome: which step of Transcribe fails, or "ok"
Transcribe(base, outcome, text, readOk, writeOk) ==
    /\ Len(History) <= MaxTurns
    /\ LET c1 == initHistory(Client0, Config, readOk)
       IN IF outcome = "open"
          THEN Return(c1, Result("Transcribe", <<>>, 0, "failed to open audio file"))
          ELSE LET c2 == Log(c1, Ev("PostWithHeaders", "", <<>>))
               IN IF outcome = "post"
                  THEN Return(c2, Result("Transcribe", <<>>, 0, "transport error"))
                  ELSE IF outcome = "parse"
                  THEN Return(c2, Result("Transcribe", <<>>, 0, "failed to parse transcription"))
                  ELSE LET c3 == appendEntry(c2, Message(UserRole, <<>>, Text(transcribeMarker(base))))
                           c4 == appendEntry(c3, Message(AssistantRole, <<>>, Text(text)))
                           c5 == truncateHistory(c4, Config)
                           c6 == IF ~Config.OmitHistory THEN storeWrite(c5, writeOk) ELSE c5
                       IN Return(c6, Result("Transcribe", text, 0, ""))

\* rawKind: the reply of the provider; postErr: the transport failed
InjectMCPContext(provider, function, postErr, rawKind, readOk, writeOk) ==
    /\ Len(History) <= MaxTurns
    /\ LET c0 == Log(Client0, [op |-> "buildMCPRequest", role |-> "", window |-> <<>>,
                               provider |-> provider, function |-> function])
           berr == buildMCPRequest(Config, provider)
           c1 == Log(c0, Ev("PostWithHeaders", "", <<>>))
           formatted == formatMCPResponse(rawKind, function)
           c2 == initHistory(c1, Config, readOk)
           c3 == appendEntry(c2, Message(FunctionRole, ReplaceTilde(function), Text(formatted)))
           c4 == truncateHistory(c3, Config)
           c5 == storeWrite(c4, writeOk)
       IN IF Config.OmitHistory
          THEN Return(Client0, Result("InjectMCPContext", <<>>, 0, ErrHistoryTracking))
          ELSE IF berr # ""
          THEN Return(c0, Result("InjectMCPContext", <<>>, 0, berr))
          ELSE IF postErr
          THEN Return(c1, Result("InjectMCPContext", <<>>, 0, "transport error"))
          ELSE Return(c5, Result("InjectMCPContext", <<>>, 0,
                                 IF writeOk THEN "" ELSE "write error"))

\* audio file names given to Transcribe, transcriptions, MCP inputs
AudioNames == {<<"f">>}
Transcriptions == {<<"t">>}
Providers == {"Apify", "other"}
Functions == {<<"f", "~", "g">>}
Contexts == {<<>>, <<"c", " ", " ", "d", "\n">>}

\* Read is only reached from an empty window, Write only with persistence on
ReadOutcomes == IF History = <<>> /\ ~Config.OmitHistory THEN BOOLEAN ELSE {TRUE}
WriteOutcomes == IF ~Config.OmitHistory THEN BOOLEAN ELSE {TRUE}
\* the outcomes of a step that is only reached when the steps before it succeed
OutcomesIf(reached, outcomes) == IF reached THEN outcomes ELSE {CHOOSE o \in outcomes : TRUE}

CallQuery ==
    \E input \in Queries, att \in {"none", "unreadable"}, readOk \in ReadOutcomes :
        \E post \in OutcomesIf(att = "none", PostResults) :
            \E writeOk \in OutcomesIf(att = "none" /\ post.err = "" /\ post.raw.kind = "json",
                                      WriteOutcomes) :
                Query(input, att, readOk, post, writeOk)

CallStream ==
    \E input \in Queries, att \in {"none", "unreadable"}, readOk \in ReadOutcomes,
       result \in StreamResults :
        \E postErr \in OutcomesIf(att = "none", BOOLEAN) :
            \E writeOk \in OutcomesIf(att = "none" /\ ~postErr, WriteOutcomes) :
                Stream(input, att, readOk, postErr, result, writeOk)

CallProvideContext ==
    \E context \in Contexts, readOk \in ReadOutcomes : ProvideContext(context, readOk)

CallTranscribe ==
    \E base \in AudioNames, outcome \in {"open", "post", "parse", "ok"},
       text \in Transcriptions, readOk \in ReadOutcomes :
        \E writeOk \in OutcomesIf(outcome = "ok", WriteOutcomes) :
            Transcribe(base, outcome, text, readOk, writeOk)

CallInjectMCPContext ==
    \E provider \in Providers, function \in Functions, rawKind \in {"empty"} :
        \E postErr \in OutcomesIf(provider = "Apify" /\ Config.ApifyAPIKey, BOOLEAN) :
            \E readOk \in OutcomesIf(~postErr, ReadOutcomes),
               writeOk \in OutcomesIf(provider = "Apify" /\ Config.ApifyAPIKey /\ ~postErr,
                                      WriteOutcomes) :
                InjectMCPContext(provider, function, postErr, rawKind, readOk, writeOk)

Next ==
    \/ CallQuery
    \/ CallStream
    \/ CallProvideContext
    \/ CallTranscribe
    \/ CallInjectMCPContext

Spec == Init /\ [][Next]_vars


\* ---------------------------------------------------------------------
\* Query and Stream over the models, payloads and attachments
\* ---------------------------------------------------------------------
\* entries of the output list of the responses envelope
TextPart(t) == [type |-> outputTextType, text |-> t]
OtherPart == [type |-> "refusal", text |-> <<"r">>]
MessageEntry(content) == [type |-> messageType, content |-> content]
ReasoningEntry(content) == [type |-> "reasoning", content |-> content]

\* a second reply text
Reply2 == <<"b">>
UsageTotal == 7

\* choices of the completions envelope: message contents
ChoiceLists ==
    {<<>>,
     <<Text(Reply)>>,
     <<Text(<<>>)>>,
     <<Media("image_url")>>,
     <<Text(Reply2), Media("image_url")>>,
     <<Media("image_url"), Text(Reply)>>}

OutputLists ==
    {<<>>,
     <<MessageEntry(<<TextPart(Reply)>>)>>,
     <<MessageEntry(<<OtherPart>>)>>,
     <<ReasoningEntry(<<TextPart(Reply)>>)>>,
     <<MessageEntry(<<TextPart(<<>>)>>)>>,
     <<ReasoningEntry(<<>>), MessageEntry(<<OtherPart, TextPart(Reply), TextPart(Reply2)>>)>>,
     <<MessageEntry(<<TextPart(Reply)>>), MessageEntry(<<TextPart(Reply2)>>)>>,
     <<MessageEntry(<<TextPart(Reply)>>), MessageEntry(<<OtherPart>>)>>,
     <<MessageEntry(<<TextPart(Reply)>>), MessageEntry(<<TextPart(<<>>)>>)>>}

\* what the transport hands back for a configuration: a failure (with or
\* without a payload), no payload, a payload that does not parse, an envelope
PostResultsOf(cfg) ==
    {[err |-> e, raw |-> r] :
        e \in {"connection refused", "timeout"},
        r \in {NilRaw, Envelope(<<Text(Reply)>>, <<MessageEntry(<<TextPart(Reply)>>)>>, UsageTotal)}}
    \cup {[err |-> "", raw |-> r] : r \in {NilRaw, InvalidRaw}}
    \cup (IF GetCapabilities(cfg.Model).UsesResponsesAPI
          THEN {[err |-> "", raw |-> Envelope(<<>>, o, UsageTotal)] : o \in OutputLists}
          ELSE {[err |-> "", raw |-> Envelope(ch, <<>>, UsageTotal)] : ch \in ChoiceLists})

\* the configurations of SpecQuery: every model; a zero temperature or top-p
\* with the classic and the first alternate model
QueryConfigs ==
    {cfg \in AllConfigs :
        /\ ~cfg.OmitHistory /\ cfg.ContextWindow = 10 /\ cfg.ApifyAPIKey
        /\ \/ cfg.Temperature = 7 /\ cfg.TopP = 9
           \/ /\ cfg.Model \in {ClassicModel, Gpt5Model}
              /\ cfg.Temperature + cfg.TopP \in {7, 9}}

InitQuery ==
    /\ Config \in QueryConfigs
    /\ History = <<>>
    /\ stored = <<>>
    /\ calls = <<>>
    /\ ret = Result("New", <<>>, 0, "")
    /\ capsIdle
    /\ streamIdle

AskQuery ==
    \E att \in Attachments, post \in PostResultsOf(Config) :
        Query(<<"q">>, att, TRUE, post, TRUE)

\* what the transport's stream decoder hands back: a reply, the line of a
\* malformed chunk, a lone newline, nothing
ErrorLineBytes == <<"E", "r", "r", "o", "r", ":", " ", "x", "\n">>
DecodedStreams == StreamResults \cup {ErrorLineBytes, <<"\n">>, <<>>}

AskStream ==
    \E att \in {"none", "audio", "unreadable"}, postErr \in BOOLEAN, result \in DecodedStreams :
        Stream(<<"q">>, att, TRUE, postErr, result, TRUE)

NextQuery == AskQuery \/ AskStream

SpecQuery == InitQuery /\ [][NextQuery]_vars


\* ---------------------------------------------------------------------
\* Query and Stream with a query that overflows the budget
\* ---------------------------------------------------------------------
\* the classic and the first alternate model, budget 8, with and without
\* persistence
InitOverflow ==
    /\ Config \in {cfg \in AllConfigs :
                     /\ cfg.Model \in {ClassicModel, Gpt5Model}
                     /\ cfg.ContextWindow = 10 /\ cfg.ApifyAPIKey
                     /\ cfg.Temperature = 7 /\ cfg.TopP = 9}
    /\ History = <<>>
    /\ stored = <<>>
    /\ calls = <<>>
    /\ ret = Result("New", <<>>, 0, "")
    /\ capsIdle
    /\ streamIdle

\* a call with a query of cost 1 or 5, with or without an attachment,
\* answered by a transport failure, no payload, a payload that does not
\* parse, an envelope without a reply, or a reply
AskOverflow ==
    \E input \in {<<"q">>, BigQuery}, call \in {"Query", "Stream"},
       att \in {"none", "image", "unreadable"},
       post \in {[err |-> "timeout", raw |-> NilRaw], [err |-> "", raw |-> NilRaw],
                 [err |-> "", raw |-> InvalidRaw],
                 [err |-> "", raw |-> Envelope(<<>>, <<>>, UsageTotal)],
                 [err |-> "", raw |-> Envelope(<<Text(Reply)>>,
                                               <<MessageEntry(<<TextPart(Reply)>>)>>,
                                               UsageTotal)]} :
        IF call = "Query" THEN Query(input, att, TRUE, post, TRUE)
        ELSE Stream(input, att, TRUE, post.err # "", Reply \o <<"\n">>, TRUE)

NextOverflow == AskOverflow

SpecOverflow == InitOverflow /\ [][NextOverflow]_vars


\* ---------------------------------------------------------------------
\* ProvideContext with contexts around the block size
\* ---------------------------------------------------------------------
\* contexts of 0, 100 and 101 one-letter words, and one with irregular blanks
LongContexts ==
    LET contextOf(n) == [i \in 1..(2 * n) |->
                            IF i % 2 = 0 THEN " " ELSE IF i % 4 = 1 THEN "c" ELSE "d"]
    IN {contextOf(0), contextOf(BlockWords), contextOf(BlockWords + 1),
        <<"\t", "c", "c", " ", "\n", "d", " ">>}

InitContext ==
    /\ Config \in Configs
    /\ History = <<>>
    /\ stored \in PersistedHistories
    /\ calls = <<>>
    /\ ret = Result("New", <<>>, 0, "")
    /\ capsIdle
    /\ streamIdle

ProvideLongContext ==
    \E context \in LongContexts, readOk \in ReadOutcomes : ProvideContext(context, readOk)

NextContext == ProvideLongContext

SpecContext == InitContext /\ [][NextContext]_vars


\* ---------------------------------------------------------------------
\* Manager.Print
\* ---------------------------------------------------------------------
\* fmt.Sprintf("%s**%s** %s%s:\n%s\n", ...): the upper-cased role and the
\* emoji are one element each, a timestamp that is not zero prints as [t]
formatHistory(role, content, timestamp) ==
    LET emoji == CASE role = SystemRole -> "(computer)"
                   [] role = UserRole -> "(person)"
                   [] role = FunctionRole -> "(plug)"
                   [] role = AssistantRole -> "(robot)"
                   [] OTHER -> ""
        prefix == CASE role \in {SystemRole, AssistantRole} -> <<"\n">>
                    [] role \in {UserRole, FunctionRole} -> <<"-", "-", "-", "\n">>
                    [] OTHER -> <<>>
        upper == CASE role = SystemRole -> "SYSTEM"
                   [] role = UserRole -> "USER"
                   [] role = FunctionRole -> "FUNCTION"
                   [] role = AssistantRole -> "ASSISTANT"
                   [] OTHER -> role
        stamp == IF role = UserRole /\ timestamp # 0 THEN <<" ", "[", "t", "]">> ELSE <<>>
    IN prefix \o <<"*", "*", upper, "*", "*", " ", emoji>> \o stamp \o <<":", "\n">>
          \o content.text \o <<"\n">>

\* one formatHistory call of Print: the block is added to the result
printBlock(p, role, content, timestamp) ==
    [p EXCEPT !.result = @ \o formatHistory(role, content, timestamp),
              !.calls = Append(@, [op |-> "formatHistory", role |-> role, window |-> <<>>,
                                   content |-> content, timestamp |-> timestamp])]

RECURSIVE printLoop(_, _, _)
\* the loop of Print from entry i; entry.Content.(string) panics on a user
\* entry whose content is not a string
printLoop(historyEntries, i, p) ==
    IF i > Len(historyEntries) \/ p.panic THEN p
    ELSE LET entry == historyEntries[i]
             isText == entry.Content.kind = "text"
             p1 == IF entry.Role = UserRole /\ p.lastRole = UserRole
                   THEN IF isText
                        THEN [p EXCEPT !.concatenatedMessage = @ \o entry.Content.text]
                        ELSE [p EXCEPT !.panic = TRUE]
                   ELSE LET p2 == IF p.lastRole = UserRole /\ p.concatenatedMessage # <<>>
                                  THEN [printBlock(p, UserRole, Text(p.concatenatedMessage),
                                                   entry.Timestamp)
                                           EXCEPT !.concatenatedMessage = <<>>]
                                  ELSE p
                        IN IF entry.Role = UserRole
                           THEN IF isText
                                THEN [p2 EXCEPT !.concatenatedMessage = entry.Content.text]
                                ELSE [p2 EXCEPT !.panic = TRUE]
                           ELSE printBlock(p2, entry.Role, entry.Content, entry.Timestamp)
         IN printLoop(historyEntries, i + 1, [p1 EXCEPT !.lastRole = entry.Role])

ManagerPrint(thread, readOk) ==
    LET read == [op |-> "ReadThread", role |-> "", window |-> IF readOk THEN thread ELSE <<>>,
                 err |-> IF readOk THEN "" ELSE "read error"]
        p0 == [result |-> <<>>, calls |-> <<read>>, lastRole |-> "",
               concatenatedMessage |-> <<>>, panic |-> FALSE]
    IN IF ~readOk THEN p0 @@ [err |-> read.err]
       ELSE LET p == printLoop(thread, 1, p0)
                q == IF ~p.panic /\ p.lastRole = UserRole /\ p.concatenatedMessage # <<>>
                     THEN printBlock(p, UserRole, Text(p.concatenatedMessage), 0)
                     ELSE p
            IN IF q.panic THEN [q EXCEPT !.result = <<>>] @@ [err |-> PanicError]
               ELSE q @@ [err |-> ""]

\* the entries of a thread: a system, a function and an assistant entry, and
\* user entries with a text, with an empty text and with a media list
ThreadEntries ==
    {[Role |-> SystemRole, Content |-> Text(<<"s">>), Timestamp |-> 0],
     [Role |-> UserRole, Content |-> Text(<<"a">>), Timestamp |-> 1],
     [Role |-> UserRole, Content |-> Text(<<"b">>), Timestamp |-> 0],
     [Role |-> UserRole, Content |-> Text(<<>>), Timestamp |-> 1],
     [Role |-> UserRole, Content |-> Media("image_url"), Timestamp |-> 0],
     [Role |-> AssistantRole, Content |-> Text(Reply), Timestamp |-> 1],
     [Role |-> FunctionRole, Content |-> Text(<<"f">>), Timestamp |-> 0]}

InitPrint ==
    /\ Config = CHOOSE cfg \in Configs : TRUE
    /\ History = <<>>
    /\ stored \in UNION {[1..n -> ThreadEntries] : n \in 0..(MaxTurns + 1)}
    /\ calls = <<>>
    /\ ret = Result("New", <<>>, 0, "")
    /\ capsIdle
    /\ streamIdle

PrintThread ==
    /\ ret.op = "New"
    /\ \E readOk \in BOOLEAN :
          LET p == ManagerPrint(stored, readOk)
          IN Return([Client0 EXCEPT !.calls = p.calls], Result("Print", p.result, 0, p.err))

NextPrint == PrintThread

SpecPrint == InitPrint /\ [][NextPrint]_vars


\* ---------------------------------------------------------------------
\* truncateHistory as a function of any window
\* ---------------------------------------------------------------------

\* the turns behind the anchor: text turns, and media turns as a persisted
\* history can hold them
TruncateTurns ==
    {Message(UserRole, <<>>, Text(<<"q">>)), Message(UserRole, <<>>, Text(Query3)),
     Message(AssistantRole, <<>>, Text(Reply)), Message(UserRole, <<>>, Text(BigQuery)),
     Message(UserRole, <<>>, Media("image_url")), Message(UserRole, <<>>, Media("input_audio"))}

RECURSIVE TurnSeqs(_)
TurnSeqs(n) ==
    IF n = 0 THEN {<<>>}
    ELSE LET shorter == TurnSeqs(n - 1)
         IN shorter \cup {Append(w, t) : w \in shorter, t \in TruncateTurns}

TruncateWindows ==
    {<<Message(SystemRole, <<>>, Text(Persona))>> \o w : w \in TurnSeqs(MaxTurns + 1)}

InitTruncate ==
    /\ Config \in {cfg \in Configs : ~cfg.OmitHistory /\ cfg.ApifyAPIKey}
    /\ History \in TruncateWindows
    /\ stored = <<>>
    /\ calls = <<>>
    /\ ret = Result("New", <<>>, 0, "")
    /\ capsIdle
    /\ streamIdle

\* one call of truncateHistory: countTokens panics, or the window is cut
TruncateOnce ==
    /\ ret.op = "New"
    /\ IF countTokensPanics(History)
       THEN Return(Log(Client0, Ev("countTokens", "", History)),
                   Result("truncateHistory", <<>>, 0, PanicError))
       ELSE Return(truncateHistory(Client0, Config), Result("truncateHistory", <<>>, 0, ""))

NextTruncate == TruncateOnce

SpecTruncate == InitTruncate /\ [][NextTruncate]_vars


\* ---------------------------------------------------------------------
\* Capability resolver as a function of any identifier
\* ---------------------------------------------------------------------
Fragments ==
    {<<"o", "1">>, <<"-", "p", "r", "o">>, <<"g", "p", "t", "-", "5">>,
     <<"-", "s", "e", "a", "r", "c", "h">>, <<"-", "m", "i", "n", "i">>,
     <<"g", "p", "t", "-", "4", "o">>, <<"-", "p", "r", "e", "v", "i", "e", "w">>,
     <<"-", "x">>}

RECURSIVE Identifiers(_)
\* the identifiers made of at most n fragments
Identifiers(n) ==
    IF n = 0 THEN {<<>>}
    ELSE LET shorter == Identifiers(n - 1)
         IN shorter \cup {m \o f : m \in shorter, f \in Fragments}

InitCaps ==
    /\ model \in Identifiers(MaxFragments)
    /\ caps = Unresolved
    /\ clientIdle
    /\ streamIdle

Resolve ==
    /\ caps = Unresolved
    /\ caps' = GetCapabilities(model)
    /\ UNCHANGED <<model, clientVars, streamVars>>

NextCaps == Resolve

SpecCaps == InitCaps /\ [][NextCaps]_vars


\* ---------------------------------------------------------------------
\* Stream decoder (ProcessResponse)
\* ---------------------------------------------------------------------
responsesPath == "/v1/responses"
completionsPath == "/v1/chat/completions"
DeltaEvent == "response.output_text.delta"
CompletedEvent == "response.completed"

\* what a data: line carries: the literal [DONE], text that is not JSON
\* (with the parser's message), or a JSON object, of which the decoder reads
\* choices[].delta.content (content) and the top-level delta (delta)
NoPayload == [form |-> "none", content |-> "", delta |-> "", msg |-> ""]
Done == [form |-> "done", content |-> "", delta |-> "", msg |-> ""]
Malformed(msg) == [form |-> "bad", content |-> "", delta |-> "", msg |-> msg]
Chunk(content) == [form |-> "json", content |-> content, delta |-> "", msg |-> ""]
TextDelta(d) == [form |-> "json", content |-> "", delta |-> d, msg |-> ""]
Json == [form |-> "json", content |-> "", delta |-> "", msg |-> ""]

BlankLine == [kind |-> "blank", name |-> "", payload |-> NoPayload]
EventLine(n) == [kind |-> "event", name |-> n, payload |-> NoPayload]
DataLine(payload) == [kind |-> "data", name |-> "", payload |-> payload]

\* the streams of the tests of ProcessResponse
legacyStream ==
    <<BlankLine, DataLine(Json), BlankLine, DataLine(Chunk("a")), BlankLine,
      DataLine(Chunk(" b")), BlankLine, DataLine(Chunk(" c")), BlankLine,
      DataLine(Json), BlankLine, DataLine(Done)>>

gpt5Stream ==
    <<BlankLine, EventLine("response.created"), DataLine(Json), BlankLine,
      EventLine("response.output_item.added"), DataLine(Json), BlankLine,
      EventLine("response.content_part.added"), DataLine(Json), BlankLine,
      EventLine(DeltaEvent), DataLine(TextDelta("a")), BlankLine,
      EventLine(DeltaEvent), DataLine(TextDelta(" b")), BlankLine,
      EventLine(DeltaEvent), DataLine(TextDelta(" c")), BlankLine,
      EventLine(CompletedEvent), DataLine(Json)>>

invalidLegacyInput == <<DataLine(Malformed("unexpected end of JSON input"))>>

\* the decoder is selected by the endpoint of the call
usesResponsesGrammar(ep) == ep = responsesPath

\* the final flush: the buffer and one newline, in one write
flushPartial(d) == [d EXCEPT !.out = Append(@, d.buf), !.finished = TRUE]

flush(d) == [d EXCEPT !.out = Append(@, d.buf \o "\n"), !.finished = TRUE]

\* a payload that does not parse: the buffer is dropped, one error line written
abortAfterPartial(d, msg) ==
    [d EXCEPT !.out = Append(Append(@, d.buf), "Error: " \o msg \o "\n"),
              !.buf = "", !.finished = TRUE]

abort(d, msg) ==
    [d EXCEPT !.out = Append(@, "Error: " \o msg \o "\n"), !.buf = "", !.finished = TRUE]

legacyLineStreaming(d, line) ==
    IF line.kind # "data" THEN d
    ELSE IF line.payload.form = "done" THEN flush([d EXCEPT !.buf = ""])
    ELSE IF line.payload.form # "json" THEN abort(d, line.payload.msg)
    ELSE [d EXCEPT !.out = IF line.payload.content = "" THEN @
                            ELSE Append(@, line.payload.content)]

\* one line of the legacy grammar
legacyLine(d, line) ==
    IF line.kind # "data" THEN d
    ELSE IF line.payload.form = "done" THEN flush(d)
    ELSE IF line.payload.form # "json" THEN abort(d, line.payload.msg)
    ELSE [d EXCEPT !.buf = @ \o line.payload.content]

eventLineAnyEvent(d, line) ==
    IF line.kind = "event" THEN [d EXCEPT !.curEvent = line.name]
    ELSE IF line.kind # "data" THEN d
    ELSE IF d.curEvent = CompletedEvent
         THEN IF line.payload.form # "json" THEN abort(d, line.payload.msg) ELSE flush(d)
    ELSE IF line.payload.form # "json" THEN abort(d, line.payload.msg)
    ELSE [d EXCEPT !.buf = @ \o line.payload.delta]

\* one line of the event-tagged grammar
eventLine(d, line) ==
    IF line.kind = "event" THEN [d EXCEPT !.curEvent = line.name]
    ELSE IF line.kind # "data" THEN d
    ELSE IF d.curEvent = DeltaEvent
         THEN IF line.payload.form # "json" THEN abort(d, line.payload.msg)
              ELSE [d EXCEPT !.buf = @ \o line.payload.delta]
    ELSE IF d.curEvent = CompletedEvent
         THEN IF line.payload.form # "json" THEN abort(d, line.payload.msg) ELSE flush(d)
    ELSE d

Decoder0 == [curEvent |-> curEvent, buf |-> buf, out |-> out, finished |-> finished]

Decoded(d) ==
    /\ curEvent' = d.curEvent
    /\ buf' = d.buf
    /\ out' = d.out
    /\ finished' = d.finished

\* the lines streams are made of, per grammar
LegacyLines ==
    {DataLine(Chunk("a")), DataLine(Chunk(" b")), DataLine(Json), DataLine(Done),
     DataLine(Malformed("unexpected end of JSON input")), EventLine(DeltaEvent)}

EventLines ==
    {EventLine(DeltaEvent), EventLine(CompletedEvent), EventLine("response.created"),
     DataLine(TextDelta("a")), DataLine(TextDelta(" b")), DataLine(Json),
     DataLine(Malformed("unexpected end of JSON input"))}

RECURSIVE Streams(_, _)
\* the streams of at most n lines
Streams(alphabet, n) ==
    IF n = 0 THEN {<<>>}
    ELSE LET shorter == Streams(alphabet, n - 1)
         IN shorter \cup {Append(ls, l) : ls \in shorter, l \in alphabet}

InitStream ==
    /\ endpoint \in {completionsPath, responsesPath}
    /\ lines \in IF usesResponsesGrammar(endpoint)
                 THEN Streams(EventLines, MaxLines) \cup {gpt5Stream}
                 ELSE Streams(LegacyLines, MaxLines) \cup {legacyStream, invalidLegacyInput}
    /\ pos = 0
    /\ curEvent = ""
    /\ buf = ""
    /\ out = <<>>
    /\ finished = FALSE
    /\ clientIdle
    /\ capsIdle

\* the decoder reads the next line of the stream
ReadLine ==
    /\ ~finished
    /\ pos < Len(lines)
    /\ pos' = pos + 1
    /\ Decoded(IF usesResponsesGrammar(endpoint)
               THEN eventLine(Decoder0, lines[pos + 1])
               ELSE legacyLine(Decoder0, lines[pos + 1]))
    /\ UNCHANGED <<endpoint, lines, clientVars, capsVars>>

\* the stream ends before a terminating line was read
EndOfStream ==
    /\ ~finished
    /\ pos = Len(lines)
    /\ Decoded(flush(Decoder0))
    /\ UNCHANGED <<endpoint, lines, pos, clientVars, capsVars>>

NextStream == ReadLine \/ EndOfStream

SpecStream == InitStream /\ [][NextStream]_vars

\* ---------------------------------------------------------------------
\* Properties of the conversation window
\* ---------------------------------------------------------------------
\* the cost of a text, counted on its characters: the characters that are
\* not white space plus the places where a word starts, halved
CostOfText(t) ==
    LET blank(i) == t[i] \in {" ", "\n", "\t"}
        chars == {i \in 1..Len(t) : ~blank(i)}
        starts == {i \in chars : i = 1 \/ blank(i - 1)}
    IN (Cardinality(chars) + Cardinality(starts)) \div 2

CostOfTurn(m) == CostOfText(m.Content.text)

WindowCost(h) == SumSeq([i \in 1..Len(h) |-> CostOfTurn(h[i])])

EffectiveBudget == (Config.ContextWindow * 80) \div 100

Overflow(h) == WindowCost(h) - EffectiveBudget

\* c1 + ... + ck, the turns counted from 0
CumulativeCost(h, k) == SumSeq([j \in 1..k |-> CostOfTurn(h[j + 1])])

HasCut(h) == \E k \in 1..(Len(h) - 1) : CumulativeCost(h, k) > Overflow(h)

CutOf(h) ==
    CHOOSE k \in 1..(Len(h) - 1) :
        /\ CumulativeCost(h, k) > Overflow(h)
        /\ \A j \in 1..(k - 1) : CumulativeCost(h, j) <= Overflow(h)

\* the truncation passes of the last operation
Truncations == {i \in DOMAIN calls : calls[i].op = "truncateHistory"}

IsAnchor(m) == m.Role = SystemRole /\ m.Content = Text(Config.Role)

\* C1: a truncation of a window over the budget removes exactly the turns
\* 1..cut, cut being the first index whose cumulative non-anchor cost is
\* greater than the overflow; turn 0 and the turns after cut stay, in order.
TruncationRemovesThroughCut ==
    \A i \in Truncations :
        LET h == calls[i].window
        IN (WindowCost(h) > EffectiveBudget /\ HasCut(h))
           => calls[i].after = <<h[1]>> \o SubSeq(h, CutOf(h) + 2, Len(h))

\* the overflow lies between c1 and c1+c2: turns 1 and 2 go, a later one stays
TruncationCutAtTwo ==
    \E i \in Truncations :
        LET h == calls[i].window
        IN /\ Len(h) >= 4
           /\ WindowCost(h) > EffectiveBudget
           /\ CumulativeCost(h, 1) <= Overflow(h)
           /\ CumulativeCost(h, 2) > Overflow(h)
           /\ calls[i].after = <<h[1]>> \o SubSeq(h, 4, Len(h))

\* the window an initHistory step of calls leaves, against what was read
InitOverwritesAnchor(log) ==
    \A i \in DOMAIN log :
        log[i].op = "initHistory" =>
            /\ log[i].window # <<>>
            /\ IsAnchor(log[i].window[1])
            /\ (i > 1 /\ log[i - 1].op = "Read" /\ log[i - 1].window # <<>>)
               => /\ Len(log[i].window) = Len(log[i - 1].window)
                  /\ Tail(log[i].window) = Tail(log[i - 1].window)

TruncationKeepsAnchor(log) ==
    \A i \in DOMAIN log :
        log[i].op = "truncateHistory" =>
            /\ log[i].after # <<>>
            /\ log[i].after[1] = log[i].window[1]

\* C2: once the window is initialized it stays non-empty and turn 0 is the
\* anchor, a system turn holding the persona; truncation keeps it in place and
\* initialization overwrites its content, also over a persisted history.
AnchorStaysFirst ==
    [][/\ History # <<>> => History' # <<>>
       /\ History' # <<>> => IsAnchor(History'[1])
       /\ InitOverwritesAnchor(calls')
       /\ TruncationKeepsAnchor(calls')]_vars

\* a persisted history was loaded, its anchor overwritten, and turns evicted
AnchorSurvivesLoadAndTruncation ==
    /\ History # <<>>
    /\ IsAnchor(History[1])
    /\ \E i \in DOMAIN calls :
        /\ calls[i].op = "initHistory"
        /\ i > 1 /\ calls[i - 1].op = "Read"
        /\ Len(calls[i - 1].window) > 1
        /\ calls[i - 1].window[1].Content # Text(Config.Role)
    /\ \E i \in Truncations : Len(calls[i].after) < Len(calls[i].window)

\* C3 as stated: when the scan never exceeds the overflow, exactly the turn
\* at index 1 is removed.
DegenerateTruncationRemovesTurnOne ==
    \A i \in Truncations :
        LET h == calls[i].window
        IN (WindowCost(h) > EffectiveBudget /\ ~HasCut(h))
           => calls[i].after = <<h[1]>> \o SubSeq(h, 3, Len(h))

\* C3 as amended: when the scan never exceeds the overflow, the cut index
\* keeps its initial value 0 and no turn is removed; the window stays over
\* the budget.
DegenerateTruncationRemovesNothing ==
    \A i \in Truncations :
        LET h == calls[i].window
        IN (WindowCost(h) > EffectiveBudget /\ ~HasCut(h))
           => /\ calls[i].after = h
              /\ WindowCost(calls[i].after) > EffectiveBudget

DegenerateTruncationHappens ==
    \E i \in Truncations :
        LET h == calls[i].window
        IN /\ Len(h) >= 3
           /\ WindowCost(h) > EffectiveBudget
           /\ Overflow(h) >= CumulativeCost(h, Len(h) - 1)
           /\ calls[i].after = h

UsesWindow(e) == e.op \in {"Write", "WriteFailed", "createBody", "Post"}

\* after step i of calls a truncation runs before the window is used
TruncatedBeforeUse(i) ==
    \E j \in (i + 1)..Len(calls) :
        /\ calls[j].op = "truncateHistory"
        /\ \A k \in (i + 1)..(j - 1) : ~UsesWindow(calls[k])

\* C4 as stated: every append of Query, Stream, Transcribe and
\* InjectMCPContext is followed by a truncation before the window is
\* persisted or used for a request.
EveryAppendTruncated ==
    ret.op \in {"Query", "Stream", "Transcribe", "InjectMCPContext"} =>
        \A i \in DOMAIN calls : calls[i].op = "append" => TruncatedBeforeUse(i)

\* C4 as amended: the appends of addQuery, Transcribe and InjectMCPContext
\* are followed by a truncation before the window is persisted or used for
\* a request; the assistant turn updateHistory appends after Query or Stream
\* is persisted as it is, no truncation runs after it.
AppendsTruncatedButAssistant ==
    ret.op \in {"Query", "Stream", "Transcribe", "InjectMCPContext"} =>
        \A i \in DOMAIN calls :
            calls[i].op = "append" =>
                IF ret.op \in {"Query", "Stream"} /\ calls[i].role = AssistantRole
                THEN /\ i >= Len(calls) - 1
                     /\ \A j \in (i + 1)..Len(calls) :
                            /\ calls[j].op \in {"Write", "WriteFailed"}
                            /\ calls[j].window = History
                ELSE TruncatedBeforeUse(i)

\* a Query evicted turns for its request, and then persisted a window that
\* its own truncation would have cut
QueryPersistsUntruncated ==
    /\ ret.op = "Query"
    /\ \E i \in Truncations : TruncatedBeforeUse(i - 1) /\ calls[i].after # calls[i].window
    /\ calls[Len(calls)].op = "Write"
    /\ WindowCost(calls[Len(calls)].window) > EffectiveBudget
    /\ HasCut(calls[Len(calls)].window)

\* C5: with the cost (characters of the words + words) / 2 and the budget
\* contextWindow * 80 / 100, a truncation of a window whose total cost is at
\* most the budget leaves it as it is.
TruncationWithinBudgetIsNoOp ==
    \A i \in Truncations :
        WindowCost(calls[i].window) <= EffectiveBudget
            => calls[i].after = calls[i].window

\* a window of several turns, exactly at the budget, went through untouched
TruncationAtBudget ==
    \E i \in Truncations :
        /\ Len(calls[i].window) >= 3
        /\ WindowCost(calls[i].window) = EffectiveBudget
        /\ calls[i].after = calls[i].window


\* ---------------------------------------------------------------------
\* Properties of the capability resolver
\* ---------------------------------------------------------------------
\* the text p occurs in the identifier m
Occurs(p, m) ==
    \E i \in 1..(Len(m) + 1) :
        /\ i + Len(p) - 1 <= Len(m)
        /\ \A j \in 1..Len(p) : m[i + j - 1] = p[j]

StartsWith(p, m) == Len(p) <= Len(m) /\ \A j \in 1..Len(p) : m[j] = p[j]

SearchText == <<"-", "s", "e", "a", "r", "c", "h">>
O1Text == <<"o", "1">>
O1ProText == <<"o", "1", "-", "p", "r", "o">>
Gpt5Text == <<"g", "p", "t", "-", "5">>
Gpt4oSearchPreview == <<"g", "p", "t", "-", "4", "o">> \o SearchText
                          \o <<"-", "p", "r", "e", "v", "i", "e", "w">>
Gpt5X == Gpt5Text \o <<"-", "x">>
O1Mini == O1Text \o <<"-", "m", "i", "n", "i">>

\* C6: the flags are a function of the identifier alone: temperature unless
\* it contains "-search", streaming unless it contains "o1-pro", the
\* alternate API when it contains "o1-pro" or "gpt-5", no first system
\* message when it starts with "o1" and does not contain "o1-pro"; the four
\* identifiers of the table get the flags of the table.
CapabilitiesFollowIdentifier ==
    caps # Unresolved =>
        /\ DOMAIN caps = {"SupportsTemperature", "SupportsStreaming",
                          "UsesResponsesAPI", "OmitFirstSystemMsg"}
        /\ caps.SupportsTemperature = ~Occurs(SearchText, model)
        /\ caps.SupportsStreaming = ~Occurs(O1ProText, model)
        /\ caps.UsesResponsesAPI = (Occurs(O1ProText, model) \/ Occurs(Gpt5Text, model))
        /\ caps.OmitFirstSystemMsg = (StartsWith(O1Text, model) /\ ~Occurs(O1ProText, model))
        /\ model = Gpt4oSearchPreview => caps.SupportsTemperature = FALSE
        /\ model = O1ProText => (caps.UsesResponsesAPI = TRUE /\ caps.SupportsStreaming = FALSE)
        /\ model = Gpt5X => caps.UsesResponsesAPI = TRUE
        /\ model = O1Mini => (caps.OmitFirstSystemMsg = TRUE /\ caps.UsesResponsesAPI = FALSE)

\* an identifier that holds "o1" but does not start with it was resolved
O1InsideResolved ==
    /\ caps # Unresolved
    /\ Occurs(O1Text, model) /\ ~StartsWith(O1Text, model) /\ ~Occurs(O1ProText, model)
    /\ caps.OmitFirstSystemMsg = FALSE

\* ---------------------------------------------------------------------
\* Properties of the stream decoder
\* ---------------------------------------------------------------------
IsLegacy == endpoint = completionsPath
IsEventTagged == endpoint = responsesPath

IsBad(l) == l.kind = "data" /\ l.payload.form = "bad"
IsJson(l) == l.kind = "data" /\ l.payload.form = "json"
IsDone(l) == l.kind = "data" /\ l.payload.form = "done"

\* the event name in force at line i: the one of the last event: line before it
EventAt(ls, i) ==
    LET evs == {j \in 1..(i - 1) : ls[j].kind = "event"}
    IN IF evs = {} THEN ""
       ELSE ls[CHOOSE j \in evs : \A k \in evs : k <= j].name

RECURSIVE ContentsUpTo(_, _)
\* d1 d2 ... of the legacy data: lines among the first n
ContentsUpTo(ls, n) ==
    IF n = 0 THEN ""
    ELSE ContentsUpTo(ls, n - 1) \o (IF IsJson(ls[n]) THEN ls[n].payload.content ELSE "")

RECURSIVE DeltasUpTo(_, _)
\* d1 d2 ... of the response.output_text.delta events among the first n lines
DeltasUpTo(ls, n) ==
    IF n = 0 THEN ""
    ELSE DeltasUpTo(ls, n - 1)
         \o (IF IsJson(ls[n]) /\ EventAt(ls, n) = "response.output_text.delta"
             THEN ls[n].payload.delta ELSE "")

Least(S) == CHOOSE i \in S : \A j \in S : i <= j

\* the lines that end a legacy stream: [DONE], or a payload that is not JSON
LegacyStops == {i \in 1..Len(lines) : IsDone(lines[i]) \/ IsBad(lines[i])}

Meaningful(i) == EventAt(lines, i) \in {"response.output_text.delta", "response.completed"}

\* the lines that end an event-tagged stream: the data of response.completed,
\* or a payload of a meaningful event that is not JSON
EventStops ==
    {i \in 1..Len(lines) :
        \/ IsJson(lines[i]) /\ EventAt(lines, i) = "response.completed"
        \/ IsBad(lines[i]) /\ Meaningful(i)}

Stops == IF IsLegacy THEN LegacyStops ELSE EventStops

\* where decoding ends: the first stopping line, or the end of the stream
StopAt == IF Stops = {} THEN Len(lines) ELSE Least(Stops)

EndsInError == Stops # {} /\ IsBad(lines[StopAt])

ErrorLine(l) == "Error: " \o l.payload.msg \o "\n"

\* C7: a legacy stream of deltas d1..dn, ended by [DONE] or by the end of
\* the stream, is decoded to d1...dn in arrival order and one newline; lines
\* without delta content add nothing.
LegacyOutputIsConcatenation ==
    IsLegacy =>
        /\ (finished /\ ~EndsInError)
           => out = <<ContentsUpTo(lines, StopAt) \o "\n">>
        /\ (finished /\ lines = legacyStream) => out = <<"a b c\n">>

\* the stream of the test was decoded
LegacyTestStreamDecoded ==
    /\ IsLegacy /\ finished /\ lines = legacyStream
    /\ out = <<"a b c\n">>

\* C8: in the event-tagged grammar only response.output_text.delta events
\* add their delta to the buffer and response.completed flushes it; other
\* event names change nothing; the output is the deltas in arrival order and
\* one newline.
EventOutputIsConcatenation ==
    IsEventTagged =>
        /\ ~finished => buf = DeltasUpTo(lines, pos)
        /\ (finished /\ ~EndsInError)
           => out = <<DeltasUpTo(lines, StopAt) \o "\n">>
        /\ (finished /\ Stops # {} /\ ~EndsInError)
           => (pos = StopAt /\ EventAt(lines, pos) = "response.completed")
        /\ (finished /\ lines = gpt5Stream) => out = <<"a b c\n">>

\* a delta under another event name was left out of a completed stream
EventStreamIgnoresOtherEvents ==
    /\ IsEventTagged /\ finished /\ ~EndsInError /\ Stops # {}
    /\ \E i \in 1..StopAt :
        /\ IsJson(lines[i]) /\ lines[i].payload.delta # ""
        /\ EventAt(lines, i) # "response.output_text.delta"
    /\ \E i \in 1..StopAt :
        /\ IsJson(lines[i]) /\ lines[i].payload.delta # ""
        /\ EventAt(lines, i) = "response.output_text.delta"
    /\ out = <<DeltasUpTo(lines, StopAt) \o "\n">>

\* the stopping lines when a payload that is not JSON stops the decoder
\* under every event name
AnyBadStops ==
    IF IsLegacy THEN LegacyStops
    ELSE {i \in 1..Len(lines) :
            \/ IsJson(lines[i]) /\ EventAt(lines, i) = "response.completed"
            \/ IsBad(lines[i]) /\ EventAt(lines, i) # ""}

\* C9 as stated: in either grammar a data: payload that is not JSON, once
\* reached, ends decoding there with the error line as the only output.
AnyMalformedPayloadAborts ==
    (AnyBadStops # {} /\ IsBad(lines[Least(AnyBadStops)]) /\ pos >= Least(AnyBadStops))
        => /\ finished
           /\ pos = Least(AnyBadStops)
           /\ out = <<ErrorLine(lines[pos])>>

\* C9 as amended: a data: payload that is not JSON ends decoding there, with
\* the error line as the only output and none of the accumulated text, when
\* it is any payload of the legacy grammar or, in the event-tagged grammar,
\* the payload of a response.output_text.delta or response.completed event;
\* under any other event name it is ignored like the rest of that event.
MalformedPayloadAborts ==
    /\ (EndsInError /\ pos >= StopAt)
        => /\ finished
           /\ pos = StopAt
           /\ out = <<ErrorLine(lines[pos])>>
    /\ (IsEventTagged /\ pos >= 1 /\ IsBad(lines[pos]) /\ ~Meaningful(pos) /\ pos < StopAt)
        => (~finished /\ out = <<>>)
    /\ (IsLegacy /\ finished /\ lines = invalidLegacyInput)
        => out = <<"Error: unexpected end of JSON input\n">>

\* text had been accumulated when the payload that is not JSON arrived
MalformedAfterDeltas ==
    /\ EndsInError /\ finished /\ pos = StopAt /\ pos < Len(lines)
    /\ (IF IsLegacy THEN ContentsUpTo(lines, pos) ELSE DeltasUpTo(lines, pos)) # ""
    /\ out = <<ErrorLine(lines[pos])>>

\* the text accumulated over the first n lines, in the grammar of the call
Flattened(n) == IF IsLegacy THEN ContentsUpTo(lines, n) ELSE DeltasUpTo(lines, n)

OneWrite ==
    /\ ~finished => out = <<>>
    /\ finished =>
        /\ Len(out) = 1
        /\ pos = StopAt
        /\ out[1] = IF EndsInError THEN ErrorLine(lines[pos]) ELSE Flattened(pos) \o "\n"

\* C10: a decoding call writes exactly once: the whole text and a newline,
\* or one error line; nothing before the terminating line, the end of the
\* stream or the failure, and nothing after it.
ExactlyOneWrite == [][OneWrite' /\ (finished => out' = out)]_vars

\* the stream went on after [DONE] or response.completed: still one write
StreamContinuesAfterTerminator ==
    /\ finished /\ ~EndsInError /\ pos < Len(lines) /\ pos >= 2
    /\ Flattened(pos) # ""
    /\ out = <<Flattened(pos) \o "\n">>

\* ---------------------------------------------------------------------
\* Properties of Query's decoding
\* ---------------------------------------------------------------------
\* the capability flags, read off the identifier
UsesAlternateAPI(m) == Occurs(O1ProText, m) \/ Occurs(Gpt5Text, m)
OmitsFirstSystemMessage(m) == StartsWith(O1Text, m) /\ ~Occurs(O1ProText, m)
SupportsTemperature(m) == ~Occurs(SearchText, m)

\* the steps of the last operation with a given name, and the only one
Steps(op) == {i \in DOMAIN calls : calls[i].op = op}
Step(op) == calls[CHOOSE i \in Steps(op) : TRUE]

\* the last operation was a Query that reached the transport
QueryPosted == ret.op = "Query" /\ Steps("Response") # {}

\* ... and the transport handed back a well-formed envelope
QueryGotEnvelope ==
    /\ QueryPosted
    /\ Step("Response").err = ""
    /\ Step("Response").raw.kind = "json"

\* C11: classic decoding of a well-formed envelope: no choices fail with
\* "no responses returned", a first choice whose content is not a plain
\* string fails with "response cannot be converted to a string", otherwise
\* the result is the first choice's content and the usage total
ClassicQueryDecoding ==
    (QueryGotEnvelope /\ ~UsesAlternateAPI(Config.Model)) =>
        LET raw == Step("Response").raw
        IN /\ raw.choices = <<>> => ret.err = "no responses returned"
           /\ (raw.choices # <<>> /\ raw.choices[1].kind # "text")
                => ret.err = "response cannot be converted to a string"
           /\ (raw.choices # <<>> /\ raw.choices[1].kind = "text")
                => /\ ret.err = ""
                   /\ ret.text = raw.choices[1].text
                   /\ ret.tokens = raw.total

\* witness of C11: two choices, the first a string, the second not: the first
\* one is returned with the usage total
ClassicFirstChoiceReturned ==
    /\ QueryGotEnvelope /\ ~UsesAlternateAPI(Config.Model)
    /\ Len(Step("Response").raw.choices) = 2
    /\ Step("Response").raw.choices[2].kind # "text"
    /\ ret = Result("Query", Reply2, UsageTotal, "")

RECURSIVE OutputTexts(_)
\* the texts of the output_text entries inside message entries, in scan order
OutputTexts(output) ==
    IF output = <<>> THEN <<>>
    ELSE LET here == IF output[1].type = messageType
                     THEN SelectSeq(output[1].content, LAMBDA p : p.type = outputTextType)
                     ELSE <<>>
         IN [i \in 1..Len(here) |-> here[i].text] \o OutputTexts(Tail(output))

AlternateEnvelope == QueryGotEnvelope /\ UsesAlternateAPI(Config.Model)

\* the claim C12 as stated: the failure happens exactly when no output_text
\* entry exists inside a message entry, and the usage total is still returned
AlternateFailsOnlyWithoutOutputText ==
    AlternateEnvelope =>
        LET raw == Step("Response").raw
        IN /\ ret.err = "no response returned" <=> OutputTexts(raw.output) = <<>>
           /\ ret.err = "no response returned" => ret.tokens = raw.total

\* C12 (amended): without any output_text entry inside a message entry the
\* call fails with "no response returned"; it fails that way otherwise only
\* when an output_text entry holds an empty text; the failure returns an
\* empty text together with the usage total
AlternateFailure ==
    AlternateEnvelope =>
        LET raw == Step("Response").raw
            texts == OutputTexts(raw.output)
        IN /\ texts = <<>> => ret.err = "no response returned"
           /\ ret.err = "no response returned"
                => (texts = <<>> \/ \E i \in DOMAIN texts : texts[i] = <<>>)
           /\ ret.err \in {"", "no response returned"}
           /\ ret.err = "no response returned"
                => (ret.text = <<>> /\ ret.tokens = raw.total)

\* witness of C12: messages with only other content types
AlternateFailsWithTokens ==
    /\ AlternateEnvelope
    /\ Step("Response").raw.output # <<>>
    /\ OutputTexts(Step("Response").raw.output) = <<>>
    /\ ret = Result("Query", <<>>, UsageTotal, "no response returned")

\* C13: alternate decoding returns the text of the first output_text entry
\* in scan order; later message and content entries never change the result
AlternateFirstMatchWins ==
    (AlternateEnvelope /\ ret.err = "") =>
        ret.text = OutputTexts(Step("Response").raw.output)[1]

\* C14: a transport error is returned verbatim; otherwise an absent payload
\* fails with "empty response"; otherwise a payload that does not parse
\* fails with the parser's error behind "failed to decode response: "; the
\* text is empty and the token count 0 in all three
QueryErrorPrecedence ==
    QueryPosted =>
        LET r == Step("Response")
        IN /\ r.err # "" => ret = Result("Query", <<>>, 0, r.err)
           /\ (r.err = "" /\ r.raw.kind = "nil")
                => ret = Result("Query", <<>>, 0, "empty response")
           /\ (r.err = "" /\ r.raw.kind = "invalid")
                => ret = Result("Query", <<>>, 0,
                                "failed to decode response: " \o "invalid character")

\* witness of C14: in the alternate branch the transport fails and hands
\* back an envelope as well: the transport's error is what Query returns
TransportErrorBeforePayload ==
    /\ QueryPosted /\ UsesAlternateAPI(Config.Model)
    /\ Step("Response").err = "timeout"
    /\ Step("Response").raw.kind = "json"
    /\ ret = Result("Query", <<>>, 0, "timeout")

\* ---------------------------------------------------------------------
\* Properties of the outgoing request
\* ---------------------------------------------------------------------
\* the request the last operation handed to the transport
Posted == Steps("Post") # {}
PostedRequest == Step("Post").req
PostedKeys == Step("Post").keys
\* the window and the attachment the request was built from
BuiltFrom == Step("createBody")

IsMediaTurn(t) == t.Content.kind \in {"image_url", "input_audio"}

\* C16: the outgoing messages are the window's turns in window order,
\* without turn 0 exactly when the model omits the first system message,
\* followed by at most one attachment turn
OutgoingMessagesAreWindow ==
    Posted =>
        LET w == BuiltFrom.window
            kept == IF OmitsFirstSystemMessage(Config.Model) /\ w # <<>> THEN Tail(w) ELSE w
            msgs == PostedRequest.messages
        IN /\ Len(msgs) \in {Len(kept), Len(kept) + 1}
           /\ SubSeq(msgs, 1, Len(kept)) = kept
           /\ Len(msgs) = Len(kept) + 1 => IsMediaTurn(msgs[Len(msgs)])
           /\ \A i \in DOMAIN kept : ~IsMediaTurn(kept[i])
           /\ w = SubSeq(History, 1, Len(w))

\* witness of C16: the alternate shape for a model that omits the first
\* system message, with two user turns behind the anchor and an attachment
AlternateRequestSkipsAnchor ==
    /\ Posted
    /\ PostedRequest.shape = "responses"
    /\ OmitsFirstSystemMessage(Config.Model)
    /\ Len(BuiltFrom.window) = 3
    /\ IsAnchor(BuiltFrom.window[1])
    /\ Len(PostedRequest.messages) = 3
    /\ PostedRequest.messages[1] = BuiltFrom.window[2]
    /\ PostedRequest.messages[2] = BuiltFrom.window[3]

MediaTurns(msgs) == {i \in DOMAIN msgs : IsMediaTurn(msgs[i])}

\* C17: an attachment adds one user turn at the end of the call's outgoing
\* messages and nothing else: the window and every Write argument hold no
\* media turn, and a call without attachment sends none
AttachmentOnlyInRequest ==
    /\ MediaTurns(History) = {}
    /\ MediaTurns(stored) = {}
    /\ \A i \in Steps("Write") \cup Steps("WriteFailed") : MediaTurns(calls[i].window) = {}
    /\ Posted =>
        LET msgs == PostedRequest.messages
        IN /\ BuiltFrom.att = "none" => MediaTurns(msgs) = {}
           /\ BuiltFrom.att # "none"
                => /\ MediaTurns(msgs) = {Len(msgs)}
                   /\ msgs[Len(msgs)].Role = UserRole
           /\ BuiltFrom.window = SubSeq(History, 1, Len(BuiltFrom.window))
           /\ MediaTurns(BuiltFrom.window) = {}

\* witness of C17: an audio attachment went out with a request whose reply
\* was persisted
AudioSentNotPersisted ==
    /\ Posted
    /\ BuiltFrom.att = "audio"
    /\ PostedRequest.messages[Len(PostedRequest.messages)].Content = Media("input_audio")
    /\ Steps("Write") # {}
    /\ stored = History
    /\ Len(History) = Len(PostedRequest.messages)

\* ---------------------------------------------------------------------
\* Properties of persistence
\* ---------------------------------------------------------------------
StoreSteps(log) == {i \in DOMAIN log : log[i].op \in {"Read", "Write", "WriteFailed"}}
WriteSteps == Steps("Write") \cup Steps("WriteFailed")

\* C18: with persistence disabled no Query, Stream or Transcribe call reads
\* or writes the store; the window starts from the anchor alone and the
\* store keeps what it held
PersistenceOffNeverTouchesStore ==
    [][(Config.OmitHistory /\ ret'.op \in {"Query", "Stream", "Transcribe"}) =>
        /\ StoreSteps(calls') = {}
        /\ stored' = stored
        /\ History = <<>> =>
            \E i \in DOMAIN calls' :
                /\ calls'[i].op = "initHistory"
                /\ calls'[i].window = <<Message(SystemRole, <<>>, Text(Config.Role))>>
                /\ \A j \in 1..(i - 1) : calls'[j].op # "append"]_vars

\* witness of C18: a store that holds an earlier session, persistence
\* disabled, and a window that a transcription and a query have filled
MemoryOnlyWindow ==
    /\ Config.OmitHistory
    /\ stored # <<>>
    /\ ret.op = "Query" /\ ret.err = ""
    /\ Len(History) >= 4
    /\ IsAnchor(History[1])
    /\ \E i \in DOMAIN History, t \in Transcriptions : History[i].Content = Text(t)
    /\ StoreSteps(calls) = {}

\* the response text of a successful Query or Stream
ResponseText == IF ret.op = "Query" THEN ret.text ELSE Step("Response").raw

\* C19: with persistence enabled a successful Query or Stream calls Write
\* exactly once, as its last step and after the assistant turn is appended,
\* with the whole window: the truncated window the request was built from
\* followed by the assistant turn holding the response text
SuccessWritesWholeWindow ==
    (~Config.OmitHistory /\ ret.op \in {"Query", "Stream"} /\ ret.err = "") =>
        /\ WriteSteps = {Len(calls)}
        /\ calls[Len(calls) - 1].op = "append"
        /\ calls[Len(calls) - 1].role = AssistantRole
        /\ calls[Len(calls)].window = History
        /\ History = BuiltFrom.window
                        \o <<Message(AssistantRole, <<>>, Text(ResponseText))>>
        /\ \E i \in Truncations :
              /\ calls[i].after = BuiltFrom.window
              /\ \A j \in (i + 1)..Len(calls) : calls[j].op # "truncateHistory"
              /\ i < CHOOSE k \in Steps("createBody") : TRUE

\* witness of C19: a Stream whose request was built from a window that the
\* truncation had shortened, and whose result was written
StreamWritesTruncatedWindow ==
    /\ ~Config.OmitHistory /\ ret.op = "Stream" /\ ret.err = ""
    /\ Steps("Write") # {}
    /\ stored = History
    /\ \E i \in Truncations : Len(calls[i].after) < Len(calls[i].window)
    /\ History[Len(History)].Content = Text(Reply \o <<"\n">>)

\* the turn the last operation appended last, and its last truncation
LastAppended == calls[CHOOSE i \in Steps("append") : \A j \in Steps("append") : j <= i].window[1]
LastTruncation == calls[CHOOSE i \in Truncations : \A j \in Truncations : j <= i]

WriteFailed == Steps("WriteFailed") # {}

\* the result each operation reports when its Write has failed
WriteFailureReported ==
    IF ret.op = "InjectMCPContext" THEN ret.err = "write error"
    ELSE /\ ret.op \in {"Query", "Stream", "Transcribe"}
         /\ ret.err = ""
         /\ ret.op # "Stream" => ret.text = LastAppended.Content.text

\* the claim C20 as stated: a failed Write is swallowed by Query, Stream and
\* Transcribe and returned by InjectMCPContext, and the appended turn stays
\* in the window
WriteFailureKeepsAppendedTurn ==
    WriteFailed =>
        /\ WriteFailureReported
        /\ \E i \in DOMAIN History : History[i] = LastAppended

\* C20 (amended): a failed Write is swallowed by Query, Stream and
\* Transcribe and returned by InjectMCPContext; the window stays as it was
\* handed to Write: with the appended turn last after Query and Stream, and
\* as the truncation that follows the append left it after Transcribe and
\* InjectMCPContext, which may have removed the appended turn
WriteFailureKeepsWindow ==
    WriteFailed =>
        /\ WriteFailureReported
        /\ History = Step("WriteFailed").window
        /\ IF ret.op \in {"Query", "Stream"}
           THEN History[Len(History)] = LastAppended
           ELSE /\ LastTruncation.window[Len(LastTruncation.window)] = LastAppended
                /\ History = LastTruncation.after

\* witness of C20: the Write of InjectMCPContext fails, the error comes back
\* and the function turn is the last turn of the window, not of the store
InjectionKeptAfterWriteFailure ==
    /\ WriteFailed
    /\ ret = Result("InjectMCPContext", <<>>, 0, "write error")
    /\ History[Len(History)].Role = FunctionRole
    /\ History[Len(History)] = LastAppended
    /\ stored # History

\* ---------------------------------------------------------------------
\* Properties of InjectMCPContext
\* ---------------------------------------------------------------------
StepsIn(log, op) == {i \in DOMAIN log : log[i].op = op}

\* the failure the checks before the transport call give, "" when they pass
InjectionRefusal(log) ==
    IF Config.OmitHistory THEN ErrHistoryTracking
    ELSE LET provider == log[CHOOSE i \in StepsIn(log, "buildMCPRequest") : TRUE].provider
         IN IF provider \notin {"apify", "Apify"} THEN ErrUnsupportedProvider
            ELSE IF ~Config.ApifyAPIKey THEN ErrMissingMCPAPIKey
            ELSE ""

\* C21: InjectMCPContext checks persistence, the provider, the key and the
\* transport's result in this order; a failure leaves the window as it was
\* and the store untouched, the first three without a transport call; a
\* success appends one function turn named after the function with '~'
\* replaced by '-' and writes the window once
InjectionChecksInOrder ==
    [][ret'.op = "InjectMCPContext" =>
        IF InjectionRefusal(calls') # ""
        THEN /\ ret'.err = InjectionRefusal(calls')
             /\ History' = History /\ stored' = stored
             /\ StoreSteps(calls') = {}
             /\ StepsIn(calls', "PostWithHeaders") = {}
        ELSE /\ Cardinality(StepsIn(calls', "PostWithHeaders")) = 1
             /\ IF ret'.err = "transport error"
                THEN /\ History' = History /\ stored' = stored
                     /\ StoreSteps(calls') = {}
                ELSE /\ ret'.err \in {"", "write error"}
                     /\ Cardinality(StepsIn(calls', "append")) = 1
                     /\ \A i \in StepsIn(calls', "append") :
                          LET turn == calls'[i].window[1]
                              function == calls'[CHOOSE k \in StepsIn(calls', "buildMCPRequest") : TRUE].function
                          IN /\ turn.Role = FunctionRole
                             /\ Len(turn.Name) = Len(function)
                             /\ \A k \in DOMAIN function :
                                  turn.Name[k] = IF function[k] = "~" THEN "-" ELSE function[k]
                     /\ Cardinality(StepsIn(calls', "Write") \cup StepsIn(calls', "WriteFailed")) = 1
                     /\ StepsIn(calls', "Write") \cup StepsIn(calls', "WriteFailed") = {Len(calls')}]_vars

\* witness of C21: no key is configured and the provider is not supported:
\* the provider's error comes back, the window and the store are untouched
UnsupportedProviderBeforeMissingKey ==
    /\ ret = Result("InjectMCPContext", <<>>, 0, ErrUnsupportedProvider)
    /\ ~Config.OmitHistory /\ ~Config.ApifyAPIKey
    /\ Len(History) >= 2
    /\ Steps("PostWithHeaders") = {} /\ StoreSteps(calls) = {}

\* ---------------------------------------------------------------------
\* Properties of the order of steps
\* ---------------------------------------------------------------------
\* the names of the steps of the last operation: an append is named by the
\* role of the turn, a Write by its name whether it succeeded or not
StepNames ==
    [i \in DOMAIN calls |->
        IF calls[i].op = "append" THEN calls[i].role
        ELSE IF calls[i].op = "WriteFailed" THEN "Write"
        ELSE calls[i].op]

\* the steps that initialize an empty window, and the steps after the
\* request body is built
InitSteps == {<<>>, <<"initHistory">>, <<"Read", "initHistory">>}
SendSteps ==
    {<<>>, <<"Post", "Response">>, <<"Post", "Response", AssistantRole>>,
     <<"Post", "Response", AssistantRole, "Write">>}

\* C22: a Query or Stream call initializes the window, appends the user
\* turn, truncates, builds the body from the truncated window, posts once,
\* decodes, appends the assistant turn and persists, in this order and at
\* most once each; the assistant turn needs a successful post and decode,
\* and nothing is posted when the body cannot be built
CallStepsInOrder ==
    ret.op \in {"Query", "Stream"} =>
        \E init \in InitSteps, send \in SendSteps :
            /\ StepNames = init \o <<UserRole, "truncateHistory", "createBody">> \o send
            /\ ("Read" \in {init[i] : i \in DOMAIN init}) => ~Config.OmitHistory
            /\ BuiltFrom.window = LastTruncation.after
            /\ send = <<>> <=> BuiltFrom.err # ""
            /\ send = <<>> => ret.err = BuiltFrom.err
            /\ Len(send) >= 3 <=> ret.err = ""
            /\ Len(send) = 4 <=> (ret.err = "" /\ ~Config.OmitHistory)
            /\ Len(send) >= 3 =>
                /\ Step("Response").err = ""
                /\ ret.op = "Query" => Step("Response").raw.kind = "json"
                /\ History = BuiltFrom.window \o <<LastAppended>>

\* witness of C22: the attachment cannot be read: the user turn is in the
\* window, nothing was posted
UnreadableAttachmentNotPosted ==
    /\ ret.op = "Query" /\ ret.err = "read error"
    /\ Steps("Post") = {} /\ Steps("Response") = {}
    /\ History[Len(History)].Role = UserRole
    /\ Len(StepNames) >= 3

\* C23: with persistence enabled the store is read at most once: only by an
\* operation that finds the window empty, which leaves it non-empty; the
\* window never becomes empty again, so no later operation reads the store
\* or sets the anchor's content again
StoreReadOnce ==
    [][~Config.OmitHistory =>
        /\ Cardinality(StepsIn(calls', "Read")) <= 1
        /\ StepsIn(calls', "Read") # {} => (History = <<>> /\ History' # <<>>)
        /\ History # <<>> =>
            /\ History' # <<>>
            /\ StepsIn(calls', "initHistory") = {}
            /\ History'[1] = History[1]]_vars

\* witness of C23: a successful Stream on a window an earlier operation
\* initialized: no Read, the anchor is the configured persona
LaterCallDoesNotRead ==
    /\ ~Config.OmitHistory
    /\ ret.op = "Stream" /\ ret.err = ""
    /\ Steps("Read") = {} /\ Steps("initHistory") = {}
    /\ IsAnchor(History[1])
    /\ Len(History) >= 4
    /\ stored = History

\* ---------------------------------------------------------------------
\* Properties of Stream's result
\* ---------------------------------------------------------------------
AssistantAppends == {i \in Steps("append") : calls[i].role = AssistantRole}

\* what Stream does with the transport's answer
StreamKeepsBytes ==
    (ret.op = "Stream" /\ Posted) =>
        LET r == Step("Response")
        IN IF r.err = ""
           THEN /\ ret.err = ""
                /\ Cardinality(AssistantAppends) = 1
                /\ History[Len(History)] = Message(AssistantRole, <<>>, Text(r.raw))
                /\ History = BuiltFrom.window \o <<History[Len(History)]>>
                /\ ~Config.OmitHistory =>
                     (WriteSteps = {Len(calls)} /\ calls[Len(calls)].window = History)
           ELSE /\ ret.err = r.err
                /\ AssistantAppends = {}
                /\ WriteSteps = {}
                /\ History = BuiltFrom.window

\* the claim C24 as stated: bytes without a transport error are appended
\* verbatim as one assistant turn and persisted, and only a transport error
\* makes Stream fail
OnlyTransportErrorFailsStream ==
    /\ StreamKeepsBytes
    /\ (ret.op = "Stream" /\ ret.err # "") => (Posted /\ Step("Response").err # "")

\* C24 (amended): bytes without a transport error are appended verbatim as
\* one assistant turn and persisted; once the request is posted only a
\* transport error makes Stream fail, and then no assistant turn is
\* appended; before that a request that cannot be built fails the call
StreamFailsOnlyBeforeDecoding ==
    /\ StreamKeepsBytes
    /\ (ret.op = "Stream" /\ ret.err # "") =>
            IF Posted THEN Step("Response").err # ""
            ELSE /\ ret.err = BuiltFrom.err
                 /\ BuiltFrom.att = "unreadable"
                 /\ AssistantAppends = {}

\* witness of C24: the decoder's error line is the assistant turn, persisted
ErrorLinePersisted ==
    /\ ret.op = "Stream" /\ ret.err = ""
    /\ Step("Response").raw = ErrorLineBytes
    /\ History[Len(History)] = Message(AssistantRole, <<>>, Text(ErrorLineBytes))
    /\ stored = History

\* ---------------------------------------------------------------------
\* Properties of truncateHistory on any window
\* ---------------------------------------------------------------------
HasMediaTurn(h) == \E i \in DOMAIN h : h[i].Content.kind # "text"

\* the cost of a turn when content that is not text counts 0
CostOrZero(m) == IF m.Content.kind = "text" THEN CostOfText(m.Content.text) ELSE 0
CostsOrZero(h) == SumSeq([i \in 1..Len(h) |-> CostOrZero(h[i])])

\* C25: a turn whose content is not plain text costs 0 in the truncation
\* pass, and the pass completes normally on a window with such a turn
MediaTurnCostsNothing ==
    (ret.op = "truncateHistory" /\ \E i \in DOMAIN calls : HasMediaTurn(calls[i].window)) =>
        /\ ret.err = ""
        /\ Truncations # {}
        /\ CostsOrZero(LastTruncation.window) <= EffectiveBudget
              => LastTruncation.after = LastTruncation.window

\* C27: when the anchor alone costs less than the budget, the window costs
\* at most the budget after every truncateHistory call; the budget stays
\* exceeded only when the anchor alone reaches it
TruncationMeetsBudget ==
    \A i \in Truncations :
        /\ CostOfTurn(calls[i].window[1]) < EffectiveBudget
              => WindowCost(calls[i].after) <= EffectiveBudget
        /\ WindowCost(calls[i].after) > EffectiveBudget
              => CostOfTurn(calls[i].after[1]) >= EffectiveBudget

\* witness of C27: a window of four turns over the budget, with an anchor
\* under it: the truncation leaves the anchor and the last turn within it
TruncationReachesBudget ==
    \E i \in Truncations :
        /\ Len(calls[i].window) = 4
        /\ CostOfTurn(calls[i].window[1]) < EffectiveBudget
        /\ WindowCost(calls[i].window) > EffectiveBudget + 4
        /\ Len(calls[i].after) = 2
        /\ WindowCost(calls[i].after) <= EffectiveBudget

\* ---------------------------------------------------------------------
\* Properties of the user turn of a call
\* ---------------------------------------------------------------------
UserAppends == {i \in Steps("append") : calls[i].role = UserRole}
\* the step of addQuery's truncation in a Query or Stream call
QueryTruncation == CHOOSE i \in Truncations : \A j \in Truncations : i <= j

\* the new query is the last turn the scan adds up, and everything behind
\* the anchor is within the overflow without it
QueryTipsOverflow(w) ==
    /\ WindowCost(w) > EffectiveBudget
    /\ CostOfTurn(w[1]) < EffectiveBudget
    /\ CumulativeCost(w, Len(w) - 2) <= Overflow(w)

\* C28: the truncation of addQuery scans the turn just appended; when the
\* window is over the budget, the anchor under it and the earlier turns
\* behind the anchor within the overflow, the truncation leaves the anchor
\* alone and the request is built without the user's query
ScanIncludesNewQuery ==
    ret.op \in {"Query", "Stream"} =>
        /\ Truncations # {}
        /\ LET t == calls[QueryTruncation]
               w == t.window
           IN /\ \E a \in UserAppends : a < QueryTruncation /\ w[Len(w)] = calls[a].window[1]
              /\ QueryTipsOverflow(w) =>
                    /\ t.after = <<w[1]>>
                    /\ BuiltFrom.window = <<w[1]>>
                    /\ Posted => \A i \in DOMAIN PostedRequest.messages :
                                    PostedRequest.messages[i].Role = UserRole
                                        => IsMediaTurn(PostedRequest.messages[i])

\* witness of C28: a window of two turns and a query of cost 5 under the
\* budget 8: the request that is posted holds the anchor alone
QueryLeftOutOfRequest ==
    /\ ret.op = "Query"
    /\ Posted
    /\ ~OmitsFirstSystemMessage(Config.Model)
    /\ Len(calls[QueryTruncation].window) = 3
    /\ QueryTipsOverflow(calls[QueryTruncation].window)
    /\ calls[QueryTruncation].window[3].Content = Text(BigQuery)
    /\ PostedRequest.messages = <<calls[QueryTruncation].window[1]>>

\* a Query or Stream call that failed before updateHistory: on its
\* attachment, on the transport, on the payload or on the reply
CallFailed == ret.op \in {"Query", "Stream"} /\ ret.err # "" /\ WriteSteps = {}
CallSucceeded == ret.op \in {"Query", "Stream"} /\ ret.err = ""

\* the user turns of a window
UserTurns(h) == {i \in DOMAIN h : h[i].Role = UserRole}

Blank(ch) == ch \in {" ", "\n", "\t"}
\* the positions where a word of the text starts and where one ends
WordStarts(t) == {i \in DOMAIN t : ~Blank(t[i]) /\ (i = 1 \/ Blank(t[i - 1]))}
WordEnds(t) == {i \in DOMAIN t : ~Blank(t[i]) /\ (i = Len(t) \/ Blank(t[i + 1]))}
Nth(S, k) == CHOOSE i \in S : Cardinality({j \in S : j <= i}) = k

\* a text with every run of blanks replaced by one space
Squeeze(t) ==
    LET marked == [i \in DOMAIN t |->
                      IF ~Blank(t[i]) THEN t[i]
                      ELSE IF i > 1 /\ ~Blank(t[i - 1]) THEN " " ELSE ""]
    IN SelectSeq(marked, LAMBDA ch : ch # "")

\* the block b (from 1) of the words of the text, n words to a block
BlockOf(t, b, n) ==
    LET w == Cardinality(WordStarts(t))
        last == IF b * n > w THEN w ELSE b * n
    IN Squeeze(SubSeq(t, Nth(WordStarts(t), (b - 1) * n + 1), Nth(WordEnds(t), last)))

ContextInput(log) == log[CHOOSE i \in DOMAIN log : log[i].op = "createHistoryEntriesFromString"].input

\* C26: ProvideContext initializes an empty window, then appends one user
\* turn per block of up to 100 words of the input, the words joined by
\* single spaces: ceil(w/100) turns for w words; the turns that were there
\* stay, nothing is truncated and nothing is written
ContextAppendedInBlocks ==
    [][ret'.op = "ProvideContext" =>
          LET input == ContextInput(calls')
              w == Cardinality(WordStarts(input))
              blocks == (w + 99) \div 100
              base == IF History = <<>>
                      THEN calls'[CHOOSE i \in DOMAIN calls' : calls'[i].op = "initHistory"].window
                      ELSE History
          IN /\ Len(History') = Len(base) + blocks
             /\ SubSeq(History', 1, Len(base)) = base
             /\ base # <<>>
             /\ \A b \in 1..blocks :
                   /\ History'[Len(base) + b].Role = UserRole
                   /\ History'[Len(base) + b].Content = Text(BlockOf(input, b, 100))
             /\ stored' = stored
             /\ \A i \in DOMAIN calls' : calls'[i].op \notin {"truncateHistory", "Write", "WriteFailed"}]_vars

\* witness of C26: a context of 101 words has become a turn of 100 words
\* and a turn of one word
ContextSplitInTwo ==
    /\ ret.op = "ProvideContext"
    /\ Cardinality(WordStarts(ContextInput(calls))) = 101
    /\ Len(History) >= 3
    /\ Cardinality(WordStarts(History[Len(History) - 1].Content.text)) = 100
    /\ Len(History[Len(History) - 1].Content.text) = 199
    /\ History[Len(History)].Content = Text(<<"c">>)

\* ---------------------------------------------------------------------
\* Properties of Manager.Print
\* ---------------------------------------------------------------------
\* the entries that open a block: every entry that is not a user entry, and
\* every user entry that does not follow a user entry
BlockStarts(thread) ==
    {i \in DOMAIN thread : thread[i].Role # UserRole \/ i = 1 \/ thread[i - 1].Role # UserRole}

\* the last entry of the block that starts at i
BlockEnd(thread, i) ==
    CHOOSE j \in i..Len(thread) :
        /\ \A k \in (i + 1)..j : k \notin BlockStarts(thread)
        /\ j = Len(thread) \/ j + 1 \in BlockStarts(thread)

RECURSIVE ContentsOf(_, _, _)
ContentsOf(thread, i, j) ==
    IF i > j THEN <<>> ELSE thread[i].Content.text \o ContentsOf(thread, i + 1, j)

PrintedBlocks == {i \in DOMAIN calls : calls[i].op = "formatHistory"}

\* C30: Print renders one block per entry that is not a user entry and one
\* per maximal run of user entries, in stored order, the run's block holding
\* the run's contents concatenated; no entry is dropped or printed twice;
\* a ReadThread error comes back with an empty result
PrintShowsEveryEntry ==
    ret.op = "Print" =>
        IF calls[1].err # ""
        THEN ret.err = calls[1].err /\ ret.text = <<>>
        ELSE /\ ret.err = ""
             /\ Cardinality(PrintedBlocks) = Cardinality(BlockStarts(stored))
             /\ \A i \in BlockStarts(stored) :
                   LET k == Cardinality({j \in BlockStarts(stored) : j <= i})
                       block == calls[k + 1]
                   IN /\ block.op = "formatHistory"
                      /\ block.role = stored[i].Role
                      /\ block.content.text = ContentsOf(stored, i, BlockEnd(stored, i))

====
